---------------------------- MODULE Spec2Model ----------------------------
(***************************************************************************)
(* A model of the MAPF verification service (osquera/mapf):                *)
(*   - backend/src/validation.rs   the plan validator                      *)
(*   - backend/src/api/solver.rs   the verify and submit handlers          *)
(*   - solvers/mapf-astar/src/astar.rs  the joint-state reference solver   *)
(*                                                                         *)
(* Conventions.  Agent indices and timesteps in error records are 0-based  *)
(* as in the source; TLA+ sequences are 1-based, so agent i of the source  *)
(* is element i+1 of a sequence.  Option<T> is a sequence of length 0      *)
(* (None) or 1 (Some(v)).  An i32 is a TLA+ integer in MinI32..MaxI32.  A  *)
(* u32 is a record [hi, lo] standing for hi * 2^31 + lo, because the model *)
(* checker's integers stop at 2^31 - 1.                                    *)
(***************************************************************************)
EXTENDS Integers, Sequences, FiniteSets, TLC

VARIABLES
    overflow_checks, \* build profile: TRUE = overflow checks on (debug), FALSE = wrapping (release)
    map,             \* the request's GridMap {width, height, tiles}
    starts,          \* the request's starts
    goals,           \* the request's goals
    paths,           \* the plan the guest's solve is building / has returned (Solution.paths)
    req,             \* the request's other fields: wasm_len, solver_name, map_name, scenario_id
    handler,         \* the handler serving the request: "none", "verify" or "submit"
    submission,      \* submit's local `submission` (the row it created), None before
    pc,              \* position of the request: "request", "guest" (inside execute), "done"
    result,          \* what a called validator function returned
    response,        \* what the handler answered
    db_submissions,  \* rows of solver_submissions
    db_verifications,\* rows of verification_results
    open,            \* reference solver: the priority queue
    visited,         \* reference solver: the closed set of (positions, timestep)
    solved,          \* reference solver: what it returned
    solver_result,   \* the handler's local `solver_result`: what execute handed back
    now,             \* wall clock, in seconds
    engine,          \* a WasmExecutor's engine: its epoch and the timer threads not yet fired
    calls,           \* the execute calls made on that WasmExecutor
    came_from,       \* astar_single: the predecessor of each cell reached
    g_score,         \* astar_single: the best known cost of each cell reached
    agent_positions, \* solve_mapf: `positions`, the cell each agent stands on
    prio_t,          \* solve_mapf: `_t`, the timestep being planned
    input,           \* mapf-core: the argument of the function called
    parsed,          \* mapf-core: what parse / from_bytes returned
    bytes,           \* mapf-core: what to_bytes returned
    db_users,        \* the rows of the users table
    db_api_keys,     \* the rows of the api_keys table
    issued,          \* the register responses the clients hold
    auth             \* the answer of the AuthenticatedUser extractor, None before

vars == <<overflow_checks, map, starts, goals, paths, req, handler, submission, pc,
          result, response, db_submissions, db_verifications, open, visited, solved,
          solver_result, now, engine, calls, came_from, g_score,
          agent_positions, prio_t,
          input, parsed, bytes,
          db_users, db_api_keys, issued, auth>>

\* the variables of the reference solver's search
solver_vars == <<open, visited, solved>>
\* the request as received
request_vars == <<overflow_checks, map, starts, goals, req>>
\* the store
db_vars == <<db_submissions, db_verifications>>
\* a WasmExecutor and the calls on it
executor_vars == <<now, engine, calls>>
\* the maps of a single-agent search
astar_vars == <<came_from, g_score>>
\* the users, their keys and the extractor
auth_vars == <<db_users, db_api_keys, issued, auth>>
\* the argument and the results of the mapf-core functions
core_vars == <<input, parsed, bytes>>
\* the locals of the prioritized planner
prioritized_vars == <<agent_positions, prio_t>>
\* the state of the library functions that no handler step touches
library_vars == <<prioritized_vars, core_vars, auth_vars>>

-----------------------------------------------------------------------------
(* Machine integers *)

MinI32 == -2147483647 - 1
MaxI32 == 2147483647

\* a u32 below 2^31
U32(n) == [hi |-> 0, lo |-> n]
\* the u32 2^31 + n
U32High(n) == [hi |-> 1, lo |-> n]

\* `v as i32` for a u32 v: the same 32 bits read as two's complement
AsI32(v) == IF v.hi = 0 THEN v.lo ELSE MinI32 + v.lo

\* a - b leaves the i32 range
SubOverflows(a, b) ==
    \/ b >= 0 /\ a < MinI32 + b
    \/ b < 0 /\ a > MaxI32 + b

\* a - b modulo 2^32, read as two's complement
WrappingSub(a, b) ==
    IF b >= 0 /\ a < MinI32 + b THEN ((a - MinI32) + (MaxI32 - b)) + 1
    ELSE IF b < 0 /\ a > MaxI32 + b THEN ((a - MaxI32) - 1) + (MinI32 - b)
    ELSE a - b

\* the result of an arithmetic step: a panic, or a value
Panicked == [panic |-> TRUE, val |-> 0]
Value(v) == [panic |-> FALSE, val |-> v]

\* `a - b` on i32: panics under overflow checks, wraps otherwise
SubI32(a, b, oc) ==
    IF SubOverflows(a, b) /\ oc THEN Panicked ELSE Value(WrappingSub(a, b))

\* `d.abs()` on i32: i32::MIN has no absolute value
AbsI32(d, oc) ==
    IF d = MinI32 THEN (IF oc THEN Panicked ELSE Value(MinI32))
    ELSE Value(IF d < 0 THEN -d ELSE d)

\* `(a - b).abs()`
AbsDiffI32(a, b, oc) ==
    LET s == SubI32(a, b, oc)
    IN IF s.panic THEN Panicked ELSE AbsI32(s.val, oc)

-----------------------------------------------------------------------------
(* validation.rs *)

Coordinate(x, y) == [x |-> x, y |-> y]

None == <<>>
Some(v) == <<v>>

ValidationError(type, agent_index, timestep, details) ==
    [error_type |-> type, agent_index |-> agent_index,
     timestep |-> timestep, details |-> details]

\* the result of a validator function: it panicked, or returned `errors`
Aborted == [panic |-> TRUE, errors |-> <<>>]
Returned(errors) == [panic |-> FALSE, errors |-> errors]

is_cardinal_move(from, to, oc) ==
    LET dx == AbsDiffI32(to.x, from.x, oc)
        dy == AbsDiffI32(to.y, from.y, oc)
    IN IF dx.panic \/ dy.panic THEN Panicked
       ELSE Value((dx.val = 1 /\ dy.val = 0) \/ (dx.val = 0 /\ dy.val = 1)
                  \/ (dx.val = 0 /\ dy.val = 0))

\* the loop `for t in 0..path.steps.len() - 1` from iteration t on
RECURSIVE CardinalLoop(_, _, _, _, _)
CardinalLoop(steps, agent_index, t, errors, oc) ==
    IF t >= Len(steps) - 1 THEN Returned(errors)
    ELSE LET from == steps[t + 1]
             to == steps[t + 2]
             c == is_cardinal_move(from, to, oc)
         IN IF c.panic THEN Aborted
            ELSE CardinalLoop(steps, agent_index, t + 1,
                    IF ~c.val
                      THEN Append(errors, ValidationError("DiagonalMove", agent_index, Some(t),
                              <<"diagonal", agent_index, from.x, from.y, to.x, to.y, t>>))
                      ELSE errors,
                    oc)

validate_path_cardinal(steps, agent_index, oc) ==
    IF steps = <<>>
      THEN Returned(<<ValidationError("EmptyPath", agent_index, None, <<"empty", agent_index>>)>>)
      ELSE CardinalLoop(steps, agent_index, 0, <<>>, oc)

\* the errors one step adds in validate_path_on_map
OnMapStep(pos, t, agent_index, m) ==
    IF pos.x < 0 \/ pos.x >= AsI32(m.width) \/ pos.y < 0 \/ pos.y >= AsI32(m.height)
      THEN <<ValidationError("OutOfBounds", agent_index, Some(t),
                <<"out of bounds", agent_index, pos.x, pos.y, t>>)>>
      ELSE \* here 0 <= x < width < 2^31 and 0 <= y < height < 2^31; the grids of
           \* this model keep width * height below 2^31, so the u32 product
           \* `pos.y as u32 * map.width + pos.x as u32` is the exact one
           LET idx == pos.y * m.width.lo + pos.x
           IN IF idx < Len(m.tiles) /\ m.tiles[idx + 1] = 0
                THEN <<ValidationError("BlockedCell", agent_index, Some(t),
                          <<"blocked", agent_index, pos.x, pos.y, t>>)>>
                ELSE <<>>

RECURSIVE OnMapLoop(_, _, _, _, _)
OnMapLoop(steps, agent_index, m, t, errors) ==
    IF t >= Len(steps) THEN errors
    ELSE OnMapLoop(steps, agent_index, m, t + 1,
                   errors \o OnMapStep(steps[t + 1], t, agent_index, m))

validate_path_on_map(steps, agent_index, m) ==
    Returned(OnMapLoop(steps, agent_index, m, 0, <<>>))


\* max over the paths of steps.len(), 0 for no path
RECURSIVE MaxLen(_)
MaxLen(ps) ==
    IF ps = <<>> THEN 0
    ELSE LET r == MaxLen(Tail(ps))
         IN IF Len(Head(ps)) > r THEN Len(Head(ps)) ELSE r

\* a slip: an agent whose path has ended is nowhere (no parking)
PositionAtNoParking(steps, t) ==
    IF t < Len(steps) THEN Some(steps[t + 1]) ELSE None

\* where the collision checks put an agent at timestep t: on its step t, on
\* its last step once its path has ended, nowhere for an empty path
PositionAt(steps, t) ==
    IF t < Len(steps) THEN Some(steps[t + 1])
    ELSE IF steps # <<>> THEN Some(steps[Len(steps)])
    ELSE None

\* a slip: the colliding agent takes the cell over in `occupied`
RECURSIVE VertexAgentsOverwriting(_, _, _, _, _)
VertexAgentsOverwriting(ps, t, agent, occupied, errors) ==
    IF agent >= Len(ps) THEN errors
    ELSE LET p == PositionAt(ps[agent + 1], t)
         IN IF p = None THEN VertexAgentsOverwriting(ps, t, agent + 1, occupied, errors)
            ELSE LET pos == p[1]
                     key == <<pos.x, pos.y>>
                     taken == [k \in DOMAIN occupied \cup {key} |->
                                  IF k = key THEN agent ELSE occupied[k]]
                 IN IF key \in DOMAIN occupied
                      THEN VertexAgentsOverwriting(ps, t, agent + 1, taken,
                              Append(errors, ValidationError("VertexCollision", agent, Some(t),
                                  <<"collide", occupied[key], agent, pos.x, pos.y, t>>)))
                      ELSE VertexAgentsOverwriting(ps, t, agent + 1, taken, errors)

\* the inner loop of validate_no_vertex_collisions from `agent` on;
\* occupied maps a cell to the agent that took it first at this timestep
RECURSIVE VertexAgents(_, _, _, _, _)
VertexAgents(ps, t, agent, occupied, errors) ==
    IF agent >= Len(ps) THEN errors
    ELSE LET p == PositionAt(ps[agent + 1], t)
         IN IF p = None THEN VertexAgents(ps, t, agent + 1, occupied, errors)
            ELSE LET pos == p[1]
                     key == <<pos.x, pos.y>>
                 IN IF key \in DOMAIN occupied
                      THEN VertexAgents(ps, t, agent + 1, occupied,
                              Append(errors, ValidationError("VertexCollision", agent, Some(t),
                                  <<"collide", occupied[key], agent, pos.x, pos.y, t>>)))
                      ELSE VertexAgents(ps, t, agent + 1,
                              [k \in DOMAIN occupied \cup {key} |->
                                  IF k = key THEN agent ELSE occupied[k]],
                              errors)

RECURSIVE VertexLoop(_, _, _, _)
VertexLoop(ps, t, max_t, errors) ==
    IF t >= max_t THEN errors
    ELSE VertexLoop(ps, t + 1, max_t, VertexAgents(ps, t, 0, <<>>, errors))

validate_no_vertex_collisions(ps) ==
    Returned(VertexLoop(ps, 0, MaxLen(ps), <<>>))

\* a slip: the swap test compares the x coordinates only
EdgePairComparingX(ps, t, i, j) ==
    LET pos_i_t == PositionAt(ps[i + 1], t)
        pos_i_t1 == PositionAt(ps[i + 1], t + 1)
        pos_j_t == PositionAt(ps[j + 1], t)
        pos_j_t1 == PositionAt(ps[j + 1], t + 1)
    IN IF pos_i_t = None \/ pos_i_t1 = None \/ pos_j_t = None \/ pos_j_t1 = None
         THEN <<>>
       ELSE IF pos_i_t[1].x = pos_j_t1[1].x /\ pos_j_t[1].x = pos_i_t1[1].x
         THEN <<ValidationError("EdgeCollision", i, Some(t), <<"swap", i, j, t, t + 1>>)>>
       ELSE <<>>

\* the body of the (t, i, j) iteration of validate_no_edge_collisions
EdgePair(ps, t, i, j) ==
    LET pos_i_t == PositionAt(ps[i + 1], t)
        pos_i_t1 == PositionAt(ps[i + 1], t + 1)
        pos_j_t == PositionAt(ps[j + 1], t)
        pos_j_t1 == PositionAt(ps[j + 1], t + 1)
    IN IF pos_i_t = None \/ pos_i_t1 = None \/ pos_j_t = None \/ pos_j_t1 = None
         THEN <<>>
       ELSE IF /\ pos_i_t[1].x = pos_j_t1[1].x
               /\ pos_i_t[1].y = pos_j_t1[1].y
               /\ pos_j_t[1].x = pos_i_t1[1].x
               /\ pos_j_t[1].y = pos_i_t1[1].y
         THEN <<ValidationError("EdgeCollision", i, Some(t), <<"swap", i, j, t, t + 1>>)>>
       ELSE <<>>

\* the three nested loops, from iteration (t, i, j) on
RECURSIVE EdgeLoop(_, _, _, _, _, _)
EdgeLoop(ps, t, i, j, last_t, errors) ==
    IF t >= last_t THEN errors
    ELSE IF i >= Len(ps) THEN EdgeLoop(ps, t + 1, 0, 1, last_t, errors)
    ELSE IF j >= Len(ps) THEN EdgeLoop(ps, t, i + 1, i + 2, last_t, errors)
    ELSE EdgeLoop(ps, t, i, j + 1, last_t, errors \o EdgePair(ps, t, i, j))

\* max_t.saturating_sub(1)
SaturatingSub1(n) == IF n = 0 THEN 0 ELSE n - 1

validate_no_edge_collisions(ps) ==
    Returned(EdgeLoop(ps, 0, 0, 1, SaturatingSub1(MaxLen(ps)), <<>>))

\* the loop of validate_starts_and_goals from path i on; starts[i] and
\* goals[i] are indexed without a length check: out of range is a panic
RECURSIVE StartsGoalsLoop(_, _, _, _, _)
StartsGoalsLoop(ps, ss, gs, i, errors) ==
    IF i >= Len(ps) THEN Returned(errors)
    ELSE LET steps == ps[i + 1]
         IN IF steps = <<>> THEN StartsGoalsLoop(ps, ss, gs, i + 1, errors)
            ELSE IF i >= Len(ss) \/ i >= Len(gs) THEN Aborted
            ELSE LET path_start == steps[1]
                     path_end == steps[Len(steps)]
                     expected_start == ss[i + 1]
                     expected_goal == gs[i + 1]
                     e1 == IF path_start.x # expected_start.x \/ path_start.y # expected_start.y
                             THEN <<ValidationError("InvalidStart", i, Some(0),
                                      <<"start", i, path_start.x, path_start.y,
                                        expected_start.x, expected_start.y>>)>>
                             ELSE <<>>
                     e2 == IF path_end.x # expected_goal.x \/ path_end.y # expected_goal.y
                             THEN <<ValidationError("InvalidGoal", i, Some(Len(steps) - 1),
                                      <<"goal", i, path_end.x, path_end.y,
                                        expected_goal.x, expected_goal.y>>)>>
                             ELSE <<>>
                 IN StartsGoalsLoop(ps, ss, gs, i + 1, errors \o e1 \o e2)

validate_starts_and_goals(ps, ss, gs) ==
    StartsGoalsLoop(ps, ss, gs, 0, <<>>)

\* the first loop of validate_solution: each path's cardinal and on-map errors
RECURSIVE PerPathLoop(_, _, _, _, _)
PerPathLoop(ps, m, i, errors, oc) ==
    IF i >= Len(ps) THEN Returned(errors)
    ELSE LET c == validate_path_cardinal(ps[i + 1], i, oc)
         IN IF c.panic THEN Aborted
            ELSE PerPathLoop(ps, m, i + 1,
                    errors \o c.errors \o validate_path_on_map(ps[i + 1], i, m).errors, oc)

\* a slip: of the two collision checks only the swap check is run
validate_solution_swaps_only(ps, m, ss, gs, oc) ==
    LET per_path == PerPathLoop(ps, m, 0, <<>>, oc)
        ends == validate_starts_and_goals(ps, ss, gs)
        collisions == IF Len(ps) > 1 THEN validate_no_edge_collisions(ps).errors ELSE <<>>
        errors == per_path.errors \o ends.errors \o collisions
    IN IF per_path.panic \/ ends.panic
         THEN [panic |-> TRUE, valid |-> FALSE, errors |-> <<>>]
         ELSE [panic |-> FALSE, valid |-> (errors = <<>>), errors |-> errors]

\* ValidationResult {valid, errors}, or a panic on the way
validate_solution(ps, m, ss, gs, oc) ==
    LET per_path == PerPathLoop(ps, m, 0, <<>>, oc)
        ends == validate_starts_and_goals(ps, ss, gs)
        collisions == IF Len(ps) > 1
                        THEN validate_no_vertex_collisions(ps).errors
                             \o validate_no_edge_collisions(ps).errors
                        ELSE <<>>
        errors == per_path.errors \o ends.errors \o collisions
    IN IF per_path.panic \/ ends.panic
         THEN [panic |-> TRUE, valid |-> FALSE, errors |-> <<>>]
         ELSE [panic |-> FALSE, valid |-> (errors = <<>>), errors |-> errors]

-----------------------------------------------------------------------------
(* The guest: an untrusted solve builds its return value step by step.    *)
(* Any sequence of paths over the cells it may name is a possible output.  *)

\* bounds of the plans the model explores
MaxPaths == 2
MaxPlanSteps == 3

RECURSIVE TotalSteps(_)
TotalSteps(ps) == IF ps = <<>> THEN 0 ELSE Len(Head(ps)) + TotalSteps(Tail(ps))

\* the guest starts another (so far empty) path
PushPath(max_paths) ==
    /\ Len(paths) < max_paths
    /\ paths' = Append(paths, <<>>)

\* the guest appends the step c to the path it is writing
PushStep(c, max_steps) ==
    /\ paths # <<>>
    /\ TotalSteps(paths) < max_steps
    /\ paths' = [paths EXCEPT ![Len(paths)] = Append(@, c)]

-----------------------------------------------------------------------------
(* api/solver.rs: verify and submit.  Each handler is two steps: what it   *)
(* does before it awaits executor.execute, and what it does with the       *)
(* executor's answer.  Between the two the guest runs.                     *)

\* config.rs: MAX_WASM_SIZE_MB defaults to 10
MaxWasmSizeMb == 10
max_size == MaxWasmSizeMb * 1024 * 1024

\* sum and max of steps.len() as i64 (a plan's step count is far below 2^63)
Cost(ps) == TotalSteps(ps)

\* a slip: the first path's length instead of the longest
MakespanOfFirstPath(ps) == IF ps = <<>> THEN 0 ELSE Len(ps[1])

Makespan(ps) == MaxLen(ps)

\* what executor.execute handed back to the handler: Ok(SolverResult) with a
\* solution or with an error string, or Err
ExecSolution == [kind |-> "solution"]
ExecError(msg) == [kind |-> "error", msg |-> msg]
ExecFailed == [kind |-> "execute_err"]

SolverErrors == {"Solver exceeded instruction limit", "guest error"}

ExecOutcomes == {ExecSolution, ExecFailed} \cup {ExecError(m) : m \in SolverErrors}

NoResponse == [kind |-> "none"]
\* the handler's task panicked: the client gets no response body
PanicResponse == [kind |-> "panic"]
ErrResponse(status, app_error, message) ==
    [kind |-> "error", status |-> status, app_error |-> app_error, message |-> message]

VerifyResponse(valid, solution, validation_errors, cost, makespan, error) ==
    [kind |-> "verify", status |-> 200, valid |-> valid, solution |-> solution,
     validation_errors |-> validation_errors, cost |-> cost, makespan |-> makespan,
     error |-> error]

SubmitResponse(submission_id, verification_id, verified) ==
    [kind |-> "submit", status |-> 200, submission_id |-> submission_id,
     verification_id |-> verification_id,
     message |-> IF verified THEN "Submission verified and added to leaderboard"
                 ELSE "Submission recorded but not valid"]

\* verify, lines 75-97: the size check and WasmExecutor::new
VerifyBegin ==
    /\ pc = "request"
    /\ handler' = "verify"
    /\ \/ /\ req.wasm_len > max_size
          /\ response' = ErrResponse(400, "BadRequest", "WASM file too large")
          /\ pc' = "done"
       \/ /\ req.wasm_len <= max_size
          /\ \/ \* WasmExecutor::new failed
                /\ response' = ErrResponse(400, "WasmExecution", "Failed to create executor")
                /\ pc' = "done"
             \/ /\ pc' = "guest"
                /\ UNCHANGED response
    /\ UNCHANGED <<request_vars, executor_vars, library_vars, astar_vars, solver_result,
                   paths, submission, result,
                   db_vars, solver_vars>>

\* a slip: verify keeps a verification row of what it ran
VerifyEndRecording ==
    /\ pc = "guest"
    /\ handler = "verify"
    /\ pc' = "done"
    /\ db_verifications' =
          Append(db_verifications,
                 [id |-> Len(db_verifications) + 1, submission_id |-> 0,
                  map_name |-> req.map_name, scenario_id |-> req.scenario_id,
                  num_agents |-> Len(starts), valid |-> FALSE, cost |-> None,
                  makespan |-> None, error_message |-> None])
    /\ response' = VerifyResponse(FALSE, None, <<>>, None, None, None)
    /\ UNCHANGED <<request_vars, executor_vars, library_vars, astar_vars, solver_result,
                   paths, handler, submission,
                   result, db_submissions, solver_vars>>

\* verify, lines 99-155: from the executor's answer to the response
VerifyEnd ==
    /\ pc = "guest"
    /\ handler = "verify"
    /\ pc' = "done"
    /\ \E outcome \in ExecOutcomes :
         \/ /\ outcome.kind = "execute_err"
            /\ response' = ErrResponse(400, "WasmExecution", "Execution failed")
            /\ paths' = <<>>
            /\ UNCHANGED <<result, solver_result>>
         \/ /\ outcome.kind = "error"
            /\ solver_result' = Some(outcome)
            /\ response' = VerifyResponse(FALSE, None, <<>>, None, None, Some(outcome.msg))
            /\ paths' = <<>>
            /\ UNCHANGED result
         \/ /\ outcome.kind = "solution"
            /\ solver_result' = Some(outcome)
            /\ LET validation_result ==
                       validate_solution(paths, map, starts, goals, overflow_checks)
               IN /\ result' = Some(validation_result)
                  /\ response' =
                        IF validation_result.panic THEN PanicResponse
                        ELSE VerifyResponse(validation_result.valid, Some(paths),
                                validation_result.errors,
                                IF validation_result.valid THEN Some(Cost(paths)) ELSE None,
                                IF validation_result.valid THEN Some(Makespan(paths)) ELSE None,
                                None)
            /\ UNCHANGED paths
    /\ UNCHANGED <<request_vars, executor_vars, library_vars, astar_vars, handler, submission,
                   db_vars, solver_vars>>

\* a slip: only the first error's details
JoinDetailsFirstOnly(errors) == IF errors = <<>> THEN <<>> ELSE <<errors[1].details>>

\* `.join("; ")` over the errors' details: the details in order, "; " between
RECURSIVE JoinDetails(_)
JoinDetails(errors) ==
    IF errors = <<>> THEN <<>>
    ELSE IF Len(errors) = 1 THEN <<errors[1].details>>
    ELSE <<errors[1].details, "; ">> \o JoinDetails(Tail(errors))

\* db.rs create_submission: the inserted row, with the id the store gives it
SubmissionRow(user_id, solver_name) ==
    [id |-> Len(db_submissions) + 1, user_id |-> user_id, solver_name |-> solver_name]

\* db.rs create_verification_result: the inserted row
VerificationRow(submission_id, map_name, scenario_id, num_agents, valid, cost, makespan, error_message) ==
    [id |-> Len(db_verifications) + 1, submission_id |-> submission_id,
     map_name |-> map_name, scenario_id |-> scenario_id, num_agents |-> num_agents,
     valid |-> valid, cost |-> cost, makespan |-> makespan,
     error_message |-> error_message]

\* submit, lines 164-193: the required fields, create_submission, WasmExecutor::new
SubmitBegin ==
    /\ pc = "request"
    /\ handler' = "submit"
    /\ \/ /\ req.solver_name = "" \/ req.map_name = "" \/ req.scenario_id = ""
          /\ response' = ErrResponse(400, "BadRequest",
                                      "solver_name, map_name, and scenario_id are required")
          /\ pc' = "done"
          /\ UNCHANGED <<submission, db_submissions>>
       \/ /\ ~(req.solver_name = "" \/ req.map_name = "" \/ req.scenario_id = "")
          /\ \/ \* create_submission failed
                /\ response' = ErrResponse(500, "Database", "Database error")
                /\ pc' = "done"
                /\ UNCHANGED <<submission, db_submissions>>
             \/ LET row == SubmissionRow(req.user_id, req.solver_name)
                IN /\ db_submissions' = Append(db_submissions, row)
                   /\ submission' = Some(row)
                   /\ \/ \* WasmExecutor::new failed
                         /\ response' = ErrResponse(400, "WasmExecution",
                                                     "Failed to create executor")
                         /\ pc' = "done"
                      \/ /\ pc' = "guest"
                         /\ UNCHANGED response
    /\ UNCHANGED <<request_vars, executor_vars, library_vars, astar_vars, solver_result,
                   paths, result,
                   db_verifications, solver_vars>>

\* submit, lines 227-262: create_verification_result and the response
StoreVerification(valid, cost, makespan, error_message) ==
    \/ \* create_verification_result failed
       /\ response' = ErrResponse(500, "Database", "Database error")
       /\ UNCHANGED db_verifications
    \/ LET verified == valid /\ cost # None
           row == VerificationRow(submission[1].id, req.map_name, req.scenario_id,
                                  Len(starts), verified, cost, makespan, error_message)
       IN /\ db_verifications' = Append(db_verifications, row)
          /\ response' = SubmitResponse(submission[1].id, row.id, verified)

\* submit, lines 195-262: from the executor's answer to the response
SubmitEnd ==
    /\ pc = "guest"
    /\ handler = "submit"
    /\ pc' = "done"
    /\ \E outcome \in ExecOutcomes :
         \/ /\ outcome.kind = "execute_err"
            /\ response' = ErrResponse(400, "WasmExecution", "Execution failed")
            /\ paths' = <<>>
            /\ UNCHANGED <<result, solver_result, db_verifications>>
         \/ /\ outcome.kind = "error"
            /\ solver_result' = Some(outcome)
            /\ paths' = <<>>
            /\ UNCHANGED result
            /\ StoreVerification(FALSE, None, None, Some(<<outcome.msg>>))
         \/ /\ outcome.kind = "solution"
            /\ solver_result' = Some(outcome)
            /\ UNCHANGED paths
            /\ LET validation_result ==
                       validate_solution(paths, map, starts, goals, overflow_checks)
               IN /\ result' = Some(validation_result)
                  /\ IF validation_result.panic
                       THEN /\ response' = PanicResponse
                            /\ UNCHANGED db_verifications
                     ELSE IF validation_result.valid
                       THEN StoreVerification(TRUE, Some(Cost(paths)), Some(Makespan(paths)),
                                              None)
                     ELSE StoreVerification(TRUE, None, None,
                                            Some(JoinDetails(validation_result.errors)))
    /\ UNCHANGED <<request_vars, executor_vars, library_vars, astar_vars, handler, submission,
                   db_submissions,
                   solver_vars>>

\* the guest's solve runs inside execute
GuestPushPath ==
    /\ pc = "guest"
    /\ PushPath(MaxPaths)
    /\ UNCHANGED <<request_vars, executor_vars, library_vars, astar_vars, solver_result,
                   handler, submission, pc,
                   result, response, db_vars,
                   solver_vars>>

\* the cells the guest of this model names in its steps
GuestCells ==
    {Coordinate(0, 0), Coordinate(1, 0), Coordinate(0, 1), Coordinate(-1, 0)}

GuestPushStep ==
    /\ pc = "guest"
    /\ \E c \in GuestCells : PushStep(c, MaxPlanSteps)
    /\ UNCHANGED <<request_vars, executor_vars, library_vars, astar_vars, solver_result,
                   handler, submission, pc,
                   result, response, db_vars,
                   solver_vars>>

\* no execute call has been made
ExecutorIdle ==
    /\ solver_result = None
    /\ now = 0
    /\ engine = [epoch |-> 0, timers |-> {}]
    /\ calls = <<>>

\* no single-agent search has started
AstarIdle ==
    /\ came_from = <<>>
    /\ g_score = <<>>

\* the prioritized planner has not been called
PrioritizedIdle ==
    /\ agent_positions = <<>>
    /\ prio_t = 0

\* no mapf-core function has been called
CoreIdle ==
    /\ input = <<>>
    /\ parsed = <<>>
    /\ bytes = <<>>

\* nobody has registered and no request was authenticated
AuthIdle ==
    /\ db_users = <<>>
    /\ db_api_keys = <<>>
    /\ issued = <<>>
    /\ auth = <<>>

\* no library function is running
LibraryIdle ==
    /\ AuthIdle
    /\ CoreIdle
    /\ PrioritizedIdle

\* the requests the model serves
GridMap(width, height, tiles) == [width |-> width, height |-> height, tiles |-> tiles]

Request(m, ss, gs, wasm_len, solver_name) ==
    [map |-> m, starts |-> ss, goals |-> gs,
     req |-> [wasm_len |-> wasm_len, solver_name |-> solver_name, map_name |-> "m",
              scenario_id |-> "s", user_id |-> 1]]

Requests ==
    { \* one agent, cell (0,1) blocked
      Request(GridMap(U32(2), U32(2), <<1, 1, 0, 1>>),
              <<Coordinate(0, 0)>>, <<Coordinate(1, 0)>>, 4, "a"),
      \* two agents, open grid
      Request(GridMap(U32(2), U32(2), <<1, 1, 1, 1>>),
              <<Coordinate(1, 0), Coordinate(0, 0)>>,
              <<Coordinate(1, 0), Coordinate(0, 1)>>, 4, "a"),
      \* more starts than goals
      Request(GridMap(U32(2), U32(2), <<1, 1, 1, 1>>),
              <<Coordinate(0, 0), Coordinate(1, 0)>>, <<Coordinate(0, 0)>>, 4, "a"),
      \* a module one byte over the limit, no solver name
      Request(GridMap(U32(2), U32(2), <<1, 1, 1, 1>>),
              <<Coordinate(0, 0)>>, <<Coordinate(0, 0)>>, max_size + 1, ""),
      \* a module one byte over the limit, every required field present
      Request(GridMap(U32(1), U32(1), <<1>>),
              <<Coordinate(0, 0)>>, <<Coordinate(0, 0)>>, max_size + 1, "a"),
      \* fewer tiles than width * height
      Request(GridMap(U32(2), U32(2), <<1, 1>>),
              <<Coordinate(0, 0)>>, <<Coordinate(0, 1)>>, 4, "a"),
      \* a width of 2^31
      Request(GridMap(U32High(0), U32(1), <<1>>),
              <<Coordinate(0, 0)>>, <<Coordinate(0, 0)>>, 4, "a") }

Init ==
    /\ overflow_checks \in BOOLEAN
    /\ \E r \in Requests :
         /\ map = r.map
         /\ starts = r.starts
         /\ goals = r.goals
         /\ req = r.req
    /\ paths = <<>>
    /\ handler = "none"
    /\ submission = None
    /\ pc = "request"
    /\ result = None
    /\ response = NoResponse
    /\ db_submissions = <<>>
    /\ db_verifications = <<>>
    /\ open = {}
    /\ visited = {}
    /\ solved = None
    /\ ExecutorIdle
    /\ AstarIdle
    /\ LibraryIdle

Next ==
    \/ VerifyBegin
    \/ SubmitBegin
    \/ GuestPushPath
    \/ GuestPushStep
    \/ VerifyEnd
    \/ SubmitEnd

Spec == Init /\ [][Next]_vars

-----------------------------------------------------------------------------
(* What the specification says of a plan, stated on the mathematical       *)
(* integers and without reference to the validator's code.                 *)

\* the number a u32 stands for is above every i32, once hi = 1
BelowU32(x, v) == v.hi = 1 \/ x < v.lo

InBounds(pos, m) ==
    /\ 0 <= pos.x /\ BelowU32(pos.x, m.width)
    /\ 0 <= pos.y /\ BelowU32(pos.y, m.height)

\* the tile under an in-bounds cell, row-major y * W + x: Some(byte), or None
\* where the tile vector is too short (the tile vectors here are far below 2^31)
TileAt(pos, m) ==
    IF m.width.hi = 1
      THEN IF pos.y = 0 /\ pos.x < Len(m.tiles) THEN Some(m.tiles[pos.x + 1]) ELSE None
    ELSE IF pos.x >= Len(m.tiles) \/ pos.y >= Len(m.tiles) THEN None
    ELSE IF pos.y * m.width.lo + pos.x < Len(m.tiles)
      THEN Some(m.tiles[pos.y * m.width.lo + pos.x + 1])
    ELSE None

OnPassable(pos, m) == InBounds(pos, m) /\ TileAt(pos, m) = Some(1)
OnBlocked(pos, m) == InBounds(pos, m) /\ TileAt(pos, m) = Some(0)

\* u and v differ by at most 1, with no subtraction that could leave the range
Near(u, v) == u = v \/ (u < MaxI32 /\ v = u + 1) \/ (v < MaxI32 /\ u = v + 1)

\* |dx| + |dy| <= 1
ManhattanAtMost1(a, b) == (a.x = b.x /\ Near(a.y, b.y)) \/ (a.y = b.y /\ Near(a.x, b.x))

\* position(i, t) = P[min(t, |P| - 1)] for a non-empty path P
ParkedPosition(steps, t) == steps[(IF t < Len(steps) THEN t ELSE Len(steps) - 1) + 1]

Tmax(ps) == IF ps = <<>> THEN 0
            ELSE LET k == CHOOSE k \in 1..Len(ps) : \A l \in 1..Len(ps) : Len(ps[l]) <= Len(ps[k])
                 IN Len(ps[k])

SharesCell(ps, i, j, t) ==
    /\ ps[i] # <<>> /\ ps[j] # <<>>
    /\ ParkedPosition(ps[i], t) = ParkedPosition(ps[j], t)

Swaps(ps, i, j, t) ==
    /\ ps[i] # <<>> /\ ps[j] # <<>>
    /\ ParkedPosition(ps[i], t) = ParkedPosition(ps[j], t + 1)
    /\ ParkedPosition(ps[j], t) = ParkedPosition(ps[i], t + 1)

\* the right-hand side of the validity property of spec section 8
PlanFollowsRules(ps, m, ss, gs) ==
    /\ \A i \in 1..Len(ps) :
         /\ ps[i] # <<>>
         /\ \A t \in 1..Len(ps[i]) : OnPassable(ps[i][t], m)
         /\ \A t \in 1..Len(ps[i]) - 1 : ManhattanAtMost1(ps[i][t], ps[i][t + 1])
         /\ i <= Len(ss) /\ ps[i][1] = ss[i]
         /\ i <= Len(gs) /\ ps[i][Len(ps[i])] = gs[i]
    /\ \A i, j \in 1..Len(ps) : \A t \in 0..Tmax(ps) - 1 :
         i < j => ~SharesCell(ps, i, j, t) /\ ~Swaps(ps, i, j, t)

SumOfLengths(ps) == Cardinality({<<i, t>> \in (1..Len(ps)) \X (1..MaxPlanSteps + 1) : t <= Len(ps[i])})

-----------------------------------------------------------------------------
(* Claims checked under Spec *)

\* C1 (as stated): validate_solution returns valid = true exactly for the
\* plans that follow every rule: non-empty paths, in-bounds passable steps,
\* moves of Manhattan distance at most 1, the right start and goal for every
\* path, no shared cell and no swap under parking.
C1_ValidIffRulesHold ==
    result # None =>
        /\ ~result[1].panic
        /\ result[1].valid <=> PlanFollowsRules(paths, map, starts, goals)

\* C3: a verify response that says valid has no validation errors, no error,
\* and cost = sum of the path lengths, makespan = the longest path length;
\* one that says invalid carries neither cost nor makespan.
C3_VerifyResponseShape ==
    response.kind = "verify" =>
        /\ response.valid =>
             /\ response.validation_errors = <<>>
             /\ response.error = None
             /\ response.solution # None
             /\ response.cost = Some(SumOfLengths(response.solution[1]))
             /\ response.makespan = Some(Tmax(response.solution[1]))
        /\ ~response.valid => response.cost = None /\ response.makespan = None

\* C3 witness: verify answered valid for a two-path plan whose paths differ in length
C3_Witness ==
    /\ response.kind = "verify"
    /\ response.valid
    /\ Len(paths) = 2
    /\ Len(paths[1]) < Len(paths[2])
    /\ response.makespan = Some(2)
    /\ response.cost = Some(3)

\* C9 (as stated): validate_solution returns a ValidationResult for every
\* plan, whatever its number of paths; it never aborts.
C9_ValidationNeverAborts ==
    result # None => ~result[1].panic

\* C10 (as stated): a result reported valid by verify or submit has exactly
\* one path per agent: as many paths as starts and as goals.
C10_ValidHasOnePathPerAgent ==
    ( \/ response.kind = "verify" /\ response.valid
      \/ response.kind = "submit"
           /\ response.message = "Submission verified and added to leaderboard" )
    => Len(paths) = Len(starts) /\ Len(paths) = Len(goals)

\* the request passes the checks the specification puts before the executor
WellFormed ==
    /\ req.wasm_len <= max_size
    /\ handler = "submit" =>
          req.solver_name # "" /\ req.map_name # "" /\ req.scenario_id # ""

\* C11 (as stated): a submit request whose module is larger than the
\* configured maximum is rejected with BadRequest before any submission
\* record is persisted and before the executor runs.
C11_SubmitRejectsOversize ==
    (handler = "submit" /\ req.wasm_len > max_size) =>
        /\ db_submissions = <<>>
        /\ pc # "guest"
        /\ pc = "done" => response.kind = "error" /\ response.app_error = "BadRequest"

\* C12 (as stated): for a well-formed verify or submit request a 400 is
\* answered only when the executor could not be constructed; every failure
\* inside execute is answered as a negative result with the error string.
C12_SandboxFailureIsNegativeResult ==
    (pc = "done" /\ WellFormed) =>
        /\ (response.kind = "error" /\ response.status = 400) =>
              response.message = "Failed to create executor"
        /\ (handler = "verify" /\ solver_result # None /\ solver_result[1].kind = "error") =>
              response = VerifyResponse(FALSE, None, <<>>, None, None,
                                        Some(solver_result[1].msg))

\* the details of errs in order, "; " between neighbours
DetailsJoinedBySemicolons(errs) ==
    [k \in 1..(2 * Len(errs) - 1) |->
        IF k % 2 = 1 THEN errs[(k + 1) \div 2].details ELSE "; "]

\* C13: the verification record submit persists is valid exactly when the
\* executor returned a plan and the validator accepted it, and then carries
\* cost and makespan; after an executor error string it is invalid, without
\* cost or makespan, its error_message is that string and the validator was
\* not called; after a failed validation it is invalid, without cost or
\* makespan, and its error_message is the errors' details joined by "; ".
C13_VerificationRecord ==
    \A k \in 1..Len(db_verifications) :
        LET row == db_verifications[k]
        IN /\ solver_result # None
           /\ row.valid <=> /\ solver_result[1].kind = "solution"
                            /\ result # None
                            /\ ~result[1].panic
                            /\ result[1].valid
           /\ row.valid => row.cost # None /\ row.makespan # None
           /\ solver_result[1].kind = "error" =>
                /\ ~row.valid
                /\ row.cost = None
                /\ row.makespan = None
                /\ row.error_message = Some(<<solver_result[1].msg>>)
                /\ result = None
           /\ (solver_result[1].kind = "solution" /\ ~row.valid) =>
                /\ result # None
                /\ row.cost = None
                /\ row.makespan = None
                /\ row.error_message = Some(DetailsJoinedBySemicolons(result[1].errors))

\* C13 witness: a record persisted after a validation that found two errors or more
C13_Witness ==
    /\ db_verifications # <<>>
    /\ ~db_verifications[1].valid
    /\ result # None
    /\ Len(result[1].errors) >= 2
    /\ Len(db_verifications[1].error_message[1]) >= 3

\* C14: verify persists nothing: no step of a verify request changes the
\* submission records or the verification records.
C14_VerifyPersistsNothing ==
    [][handler' = "verify" => UNCHANGED db_vars]_vars

\* C14 witness: verify has answered for a plan it found valid
C14_Witness ==
    /\ pc = "done"
    /\ handler = "verify"
    /\ response.kind = "verify"
    /\ response.valid
    /\ db_verifications = <<>>

-----------------------------------------------------------------------------
(* SpecCollisions: the two collision checks applied to every plan of up to *)
(* MaxAgents paths and MaxCollisionSteps steps over CollisionCells.        *)

MaxAgents == 3
MaxCollisionSteps == 5

CollisionCells == {Coordinate(0, 0), Coordinate(1, 0), Coordinate(0, 1)}

InitCollisions ==
    /\ overflow_checks = FALSE
    /\ map = GridMap(U32(2), U32(2), <<1, 1, 1, 1>>)
    /\ starts = <<>>
    /\ goals = <<>>
    /\ req = [wasm_len |-> 0, solver_name |-> "", map_name |-> "", scenario_id |-> "",
              user_id |-> 0]
    /\ paths = <<>>
    /\ handler = "none"
    /\ submission = None
    /\ pc = "plan"
    /\ result = None
    /\ response = NoResponse
    /\ db_submissions = <<>>
    /\ db_verifications = <<>>
    /\ open = {}
    /\ visited = {}
    /\ solved = None
    /\ ExecutorIdle
    /\ AstarIdle
    /\ LibraryIdle

PlanPushPath ==
    /\ pc = "plan"
    /\ PushPath(MaxAgents)
    /\ UNCHANGED <<request_vars, executor_vars, library_vars, astar_vars, solver_result,
                   handler, submission, pc,
                   result, response, db_vars,
                   solver_vars>>

PlanPushStep ==
    /\ pc = "plan"
    /\ \E c \in CollisionCells : PushStep(c, MaxCollisionSteps)
    /\ UNCHANGED <<request_vars, executor_vars, library_vars, astar_vars, solver_result,
                   handler, submission, pc,
                   result, response, db_vars,
                   solver_vars>>

CallVertexCollisions ==
    /\ pc = "plan"
    /\ result' = Some(validate_no_vertex_collisions(paths))
    /\ pc' = "vertex"
    /\ UNCHANGED <<request_vars, executor_vars, library_vars, astar_vars, solver_result,
                   paths, handler, submission,
                   response, db_vars, solver_vars>>

CallEdgeCollisions ==
    /\ pc = "plan"
    /\ result' = Some(validate_no_edge_collisions(paths))
    /\ pc' = "edge"
    /\ UNCHANGED <<request_vars, executor_vars, library_vars, astar_vars, solver_result,
                   paths, handler, submission,
                   response, db_vars, solver_vars>>

NextCollisions ==
    \/ PlanPushPath
    \/ PlanPushStep
    \/ CallVertexCollisions
    \/ CallEdgeCollisions

SpecCollisions == InitCollisions /\ [][NextCollisions]_vars

\* the positions k of errs whose error satisfies P
Matching(errs, P(_)) == {k \in 1..Len(errs) : P(errs[k])}

Agents == 1..Len(paths)
Timesteps == 0..Tmax(paths) - 1

\* C4: in the vertex check an agent stands on P[min(t, |P| - 1)] at every
\* t < Tmax: every reported collision is between two agents that stand on the
\* reported cell at the reported timestep, and an agent that enters the cell
\* where another agent's path has ended, at a later timestep, is reported by
\* a VertexCollision error at that timestep and cell.
C4_Parking ==
    pc = "vertex" =>
        LET errs == result[1].errors
        IN /\ \A k \in 1..Len(errs) :
                LET e == errs[k]
                    t == e.timestep[1]
                    cell == Coordinate(e.details[4], e.details[5])
                IN /\ e.error_type = "VertexCollision"
                   /\ t \in Timesteps
                   /\ e.details[2] + 1 \in Agents /\ e.agent_index + 1 \in Agents
                   /\ paths[e.details[2] + 1] # <<>> /\ paths[e.agent_index + 1] # <<>>
                   /\ ParkedPosition(paths[e.details[2] + 1], t) = cell
                   /\ ParkedPosition(paths[e.agent_index + 1], t) = cell
           /\ \A i, j \in Agents : \A t \in Timesteps :
                ( /\ i # j
                  /\ paths[i] # <<>> /\ paths[j] # <<>>
                  /\ t >= Len(paths[i])
                  /\ ParkedPosition(paths[j], t) = paths[i][Len(paths[i])] )
                => \E k \in 1..Len(errs) :
                     /\ errs[k].error_type = "VertexCollision"
                     /\ errs[k].timestep = Some(t)
                     /\ errs[k].details[4] = paths[i][Len(paths[i])].x
                     /\ errs[k].details[5] = paths[i][Len(paths[i])].y

\* C4 witness: the vertex check ran on a plan where agent 1 moves, at
\* timestep 1, onto the cell where agent 0's one-step path ended
C4_Witness ==
    /\ pc = "vertex"
    /\ Len(paths) = 2
    /\ Len(paths[1]) = 1 /\ Len(paths[2]) = 2
    /\ paths[2][1] # paths[1][1]
    /\ paths[2][2] = paths[1][1]
    /\ Len(result[1].errors) = 1

\* C5 (as stated): for every timestep t and every pair i < j on one cell at t
\* there is exactly one VertexCollision error for that pair, with
\* agent_index = j and timestep = t.
C5_OneErrorPerPair ==
    pc = "vertex" =>
        \A i, j \in Agents : \A t \in Timesteps :
            (i < j /\ SharesCell(paths, i, j, t)) =>
                LET ForPair(e) == /\ e.error_type = "VertexCollision"
                                  /\ e.agent_index = j - 1
                                  /\ e.timestep = Some(t)
                                  /\ e.details[2] = i - 1
                IN Cardinality(Matching(result[1].errors, ForPair)) = 1

\* the lower-indexed agents on agent j's cell at t
Before(j, t) == {i \in Agents : i < j /\ SharesCell(paths, i, j, t)}

\* C5 (amended): for every timestep t and every agent j that stands at t on a
\* cell where a lower-indexed agent stands too, there is exactly one
\* VertexCollision error with agent_index = j and timestep = t, and it names
\* the lowest-indexed agent on that cell as the other one; there is no other
\* error.  Three agents on one cell give two errors, not three.
C5_OneErrorPerLaterAgent ==
    pc = "vertex" =>
        LET errs == result[1].errors
        IN /\ \A j \in Agents : \A t \in Timesteps :
                LET ForAgent(e) == /\ e.error_type = "VertexCollision"
                                   /\ e.agent_index = j - 1
                                   /\ e.timestep = Some(t)
                    found == Matching(errs, ForAgent)
                IN IF Before(j, t) = {} THEN found = {}
                   ELSE /\ Cardinality(found) = 1
                        /\ \A k \in found : \A i \in Before(j, t) :
                             errs[k].details[2] + 1 <= i
                        /\ \A k \in found : errs[k].details[2] + 1 \in Before(j, t)
           /\ \A k \in 1..Len(errs) :
                /\ errs[k].error_type = "VertexCollision"
                /\ errs[k].agent_index + 1 \in Agents
                /\ errs[k].timestep # None /\ errs[k].timestep[1] \in Timesteps

\* C5 witness: the vertex check ran on three agents standing on one cell
C5_Witness ==
    /\ pc = "vertex"
    /\ Len(paths) = 3
    /\ \E t \in Timesteps : SharesCell(paths, 1, 2, t) /\ SharesCell(paths, 2, 3, t)
    /\ Len(result[1].errors) >= 2

\* C6: the edge check reports EdgeCollision (agent_index = i, timestep = t,
\* other agent j) exactly for the i < j and t in 0..Tmax-2 with
\* position(i,t) = position(j,t+1) and position(j,t) = position(i,t+1) under
\* parking, once each, and reports nothing else.
C6_EdgeCollisionExact ==
    pc = "edge" =>
        LET errs == result[1].errors
        IN /\ \A i, j \in Agents : \A t \in 0..Tmax(paths) - 2 :
                i < j =>
                    LET ForPair(e) == /\ e.error_type = "EdgeCollision"
                                      /\ e.agent_index = i - 1
                                      /\ e.timestep = Some(t)
                                      /\ e.details[3] = j - 1
                    IN Cardinality(Matching(errs, ForPair)) =
                           IF Swaps(paths, i, j, t) THEN 1 ELSE 0
           /\ \A k \in 1..Len(errs) :
                /\ errs[k].error_type = "EdgeCollision"
                /\ errs[k].timestep # None
                /\ errs[k].timestep[1] \in 0..Tmax(paths) - 2
                /\ errs[k].agent_index + 1 \in Agents
                /\ errs[k].details[3] + 1 \in Agents
                /\ errs[k].agent_index < errs[k].details[3]

\* C6 witness: the edge check ran on two agents that exchange two different
\* cells between timesteps 0 and 1, and reported it
C6_Witness ==
    /\ pc = "edge"
    /\ Len(paths) = 2
    /\ Len(paths[1]) = 2 /\ Len(paths[2]) = 2
    /\ paths[1][1] # paths[1][2]
    /\ paths[1][1] = paths[2][2] /\ paths[1][2] = paths[2][1]
    /\ Len(result[1].errors) = 1

-----------------------------------------------------------------------------
(* SpecPath: the two per-path checks, called as validate_solution calls    *)
(* them (path i with agent_index i), on every path of up to MaxPathSteps   *)
(* steps over PathCells, on each grid of PathGrids, in both build          *)
(* profiles.                                                               *)

MaxPathSteps == 3

PathCells ==
    {Coordinate(0, 0), Coordinate(1, 0), Coordinate(1, 1), Coordinate(-1, 0),
     Coordinate(MinI32, 0), Coordinate(MaxI32, 0)}

PathGrids ==
    {GridMap(U32(2), U32(2), <<1, 1, 1, 0>>),
     GridMap(U32High(0), U32(1), <<1, 1>>),
     GridMap(U32(1), U32High(0), <<1>>)}

InitPath ==
    /\ overflow_checks \in BOOLEAN
    /\ map \in PathGrids
    /\ starts = <<>>
    /\ goals = <<>>
    /\ req = [wasm_len |-> 0, solver_name |-> "", map_name |-> "", scenario_id |-> "",
              user_id |-> 0]
    /\ paths = <<>>
    /\ handler = "none"
    /\ submission = None
    /\ pc = "path"
    /\ result = None
    /\ response = NoResponse
    /\ db_submissions = <<>>
    /\ db_verifications = <<>>
    /\ open = {}
    /\ visited = {}
    /\ solved = None
    /\ ExecutorIdle
    /\ AstarIdle
    /\ LibraryIdle

PathPushPath ==
    /\ pc = "path"
    /\ PushPath(MaxPaths)
    /\ UNCHANGED <<request_vars, executor_vars, library_vars, astar_vars, solver_result,
                   handler, submission, pc,
                   result, response, db_vars,
                   solver_vars>>

PathPushStep ==
    /\ pc = "path"
    /\ \E c \in PathCells : PushStep(c, MaxPathSteps)
    /\ UNCHANGED <<request_vars, executor_vars, library_vars, astar_vars, solver_result,
                   handler, submission, pc,
                   result, response, db_vars,
                   solver_vars>>

\* the path handed to the check and its agent index: the last path written
CheckedPath == paths[Len(paths)]
CheckedAgent == Len(paths) - 1

CallPathCardinal ==
    /\ pc = "path"
    /\ paths # <<>>
    /\ result' = Some(validate_path_cardinal(CheckedPath, CheckedAgent, overflow_checks))
    /\ pc' = "cardinal"
    /\ UNCHANGED <<request_vars, executor_vars, library_vars, astar_vars, solver_result,
                   paths, handler, submission,
                   response, db_vars, solver_vars>>

CallPathOnMap ==
    /\ pc = "path"
    /\ paths # <<>>
    /\ result' = Some(validate_path_on_map(CheckedPath, CheckedAgent, map))
    /\ pc' = "on_map"
    /\ UNCHANGED <<request_vars, executor_vars, library_vars, astar_vars, solver_result,
                   paths, handler, submission,
                   response, db_vars, solver_vars>>

NextPath ==
    \/ PathPushPath
    \/ PathPushStep
    \/ CallPathCardinal
    \/ CallPathOnMap

SpecPath == InitPath /\ [][NextPath]_vars

\* how many errors of the given type, agent and timestep errs holds
Count(errs, type, agent_index, timestep) ==
    LET Is(e) == /\ e.error_type = type
                 /\ e.agent_index = agent_index
                 /\ e.timestep = timestep
    IN Cardinality(Matching(errs, Is))

\* C7 (as stated): validate_path_cardinal returns, for a non-empty path,
\* exactly one DiagonalMove error (with the agent index and timestep t) for
\* each adjacent pair with |dx| + |dy| > 1 and nothing else, and for an empty
\* path exactly one EmptyPath error.
C7_DiagonalMovePerBadPair ==
    pc = "cardinal" =>
        LET errs == result[1].errors
        IN /\ ~result[1].panic
           /\ CheckedPath = <<>> =>
                /\ Len(errs) = 1
                /\ errs[1].error_type = "EmptyPath"
                /\ errs[1].agent_index = CheckedAgent
           /\ CheckedPath # <<>> =>
                /\ \A t \in 0..Len(CheckedPath) - 2 :
                     Count(errs, "DiagonalMove", CheckedAgent, Some(t)) =
                        IF ManhattanAtMost1(CheckedPath[t + 1], CheckedPath[t + 2])
                          THEN 0 ELSE 1
                /\ \A k \in 1..Len(errs) :
                     /\ errs[k].error_type = "DiagonalMove"
                     /\ errs[k].agent_index = CheckedAgent
                     /\ errs[k].timestep # None
                     /\ errs[k].timestep[1] \in 0..Len(CheckedPath) - 2

\* C8 (as stated): for every step, validate_path_on_map reports OutOfBounds
\* and no BlockedCell when x is outside [0,W) or y outside [0,H), BlockedCell
\* when the step is in bounds on a Blocked tile, and nothing when it is in
\* bounds on a Passable tile.
C8_OnMapPerStep ==
    pc = "on_map" =>
        LET errs == result[1].errors
        IN \A t \in 0..Len(CheckedPath) - 1 :
             LET pos == CheckedPath[t + 1]
                 oob == Count(errs, "OutOfBounds", CheckedAgent, Some(t))
                 blocked == Count(errs, "BlockedCell", CheckedAgent, Some(t))
             IN /\ ~InBounds(pos, map) => oob = 1 /\ blocked = 0
                /\ OnBlocked(pos, map) => blocked = 1 /\ oob = 0
                /\ OnPassable(pos, map) => blocked = 0 /\ oob = 0

-----------------------------------------------------------------------------
(* solvers/mapf-astar/src/astar.rs: the reference joint-state solver.      *)
(* The solver's coordinates are u32; the instances below keep them under   *)
(* 2^31, where a u32, its `as i32` cast and the validator's i32 are the    *)
(* same number.                                                            *)

\* the largest value the model's cost and timestep counters hold: it stands
\* for u32::MAX, scaled down so that a search can count up to it
MaxTimestep == 7

\* a u32 sum that wraps (overflow checks off)
WrapCounter(n) == n % (MaxTimestep + 1)

\* Grid::is_passable
is_passable(grid, x, y) ==
    IF ~BelowU32(x, grid.width) \/ ~BelowU32(y, grid.height) THEN FALSE
    ELSE LET idx == y * grid.width.lo + x
         IN idx < Len(grid.tiles) /\ grid.tiles[idx + 1] = 1

\* fn heuristic: Manhattan distance
heuristic(from, to) ==
    LET dx == from.x - to.x
        dy == from.y - to.y
    IN (IF dx < 0 THEN -dx ELSE dx) + (IF dy < 0 THEN -dy ELSE dy)

\* North, South, West, East
cardinals == <<<<0, -1>>, <<0, 1>>, <<-1, 0>>, <<1, 0>>>>

\* the cell one cardinal step from coord, and the bounds test both neighbour
\* functions apply to it
Stepped(coord, k) == Coordinate(coord.x + cardinals[k][1], coord.y + cardinals[k][2])
InsideI32(c, width, height) ==
    /\ c.x >= 0
    /\ c.x < AsI32(width)
    /\ c.y >= 0
    /\ c.y < AsI32(height)

neighbors_grid(coord, grid) ==
    LET Keep(k) == /\ InsideI32(Stepped(coord, k), grid.width, grid.height)
                   /\ is_passable(grid, Stepped(coord, k).x, Stepped(coord, k).y)
        ks == SelectSeq(<<1, 2, 3, 4>>, Keep)
    IN Value([i \in 1..Len(ks) |-> Stepped(coord, ks[i])])

\* the raw-slice variant indexes map[idx] unchecked: a slice shorter than
\* width * height makes it panic
neighbors(coord, width, height, tiles) ==
    LET Idx(k) == Stepped(coord, k).y * width.lo + Stepped(coord, k).x
        Inside(k) == InsideI32(Stepped(coord, k), width, height)
        Keep(k) == Inside(k) /\ tiles[Idx(k) + 1] # 0
        ks == SelectSeq(<<1, 2, 3, 4>>, Keep)
    IN IF \E k \in 1..4 : Inside(k) /\ Idx(k) >= Len(tiles)
         THEN [panic |-> TRUE, val |-> <<>>]
         ELSE Value([i \in 1..Len(ks) |-> Stepped(coord, ks[i])])

GlobalState(positions, agent_paths, cost, timestep, agent_goals) ==
    [positions |-> positions, paths |-> agent_paths, cost |-> cost,
     timestep |-> timestep, goals |-> agent_goals]

RECURSIVE SumHeuristic(_, _, _)
SumHeuristic(positions, agent_goals, i) ==
    IF i > Len(positions) \/ i > Len(agent_goals) THEN 0
    ELSE heuristic(positions[i], agent_goals[i]) + SumHeuristic(positions, agent_goals, i + 1)

GlobalState_heuristic(state) == SumHeuristic(state.positions, state.goals, 1)
f_cost(state) == WrapCounter(state.cost + GlobalState_heuristic(state))

\* the two entry points differ in the neighbour function only
SolverEntries == {"solve_mapf_centralized", "solve_mapf_centralized_grid"}

moves_of(entry, coord, grid) ==
    LET ns == IF entry = "solve_mapf_centralized_grid"
                THEN neighbors_grid(coord, grid)
                ELSE neighbors(coord, grid.width, grid.height, grid.tiles)
    IN IF ns.panic THEN ns ELSE Value(ns.val \o <<coord>>)

\* moves_per_agent: the neighbours of each agent's cell, then the wait
moves_per_agent(entry, state, grid) ==
    LET per == [i \in 1..Len(state.positions) |-> moves_of(entry, state.positions[i], grid)]
    IN IF \E i \in 1..Len(per) : per[i].panic
         THEN [panic |-> TRUE, val |-> <<>>]
         ELSE Value([i \in 1..Len(per) |-> per[i].val])

\* joint_moves: the cartesian product of the agents' moves
RECURSIVE backtrack(_, _)
backtrack(moves, idx) ==
    IF idx > Len(moves) THEN {<<>>}
    ELSE {<<moves[idx][k]>> \o rest :
            k \in 1..Len(moves[idx]), rest \in backtrack(moves, idx + 1)}

vertex_conflict(next_positions) ==
    \E i, j \in 1..Len(next_positions) : i < j /\ next_positions[i] = next_positions[j]

edge_conflict(positions, next_positions) ==
    \E i, j \in 1..Len(positions) :
        /\ i < j
        /\ positions[i] = next_positions[j]
        /\ positions[j] = next_positions[i]

\* the joint moves of one expansion that are pushed; the product holds no
\* position vector twice, so the visited test within one expansion only
\* ever meets keys of earlier expansions
Pushed(state, moves) ==
    {np \in backtrack(moves, 1) :
        /\ ~vertex_conflict(np)
        /\ ~edge_conflict(state.positions, np)
        /\ <<np, WrapCounter(state.timestep + 1)>> \notin visited}

new_state(state, np) ==
    GlobalState(np,
                [i \in 1..Len(state.paths) |-> Append(state.paths[i], np[i])],
                WrapCounter(state.cost + 1), WrapCounter(state.timestep + 1), state.goals)

AllAtGoals(state) ==
    \A i \in 1..Len(state.positions) :
        i <= Len(state.goals) => state.positions[i] = state.goals[i]

\* open.pop(): a state of least f_cost; the heap's order among equals is
\* left open
Pops(state) == state \in open /\ \A o \in open : f_cost(state) <= f_cost(o)

\* the heap compares two states and one of them has cost + heuristic past
\* the counter's range: the addition in f_cost overflows
FCostOverflows ==
    /\ Cardinality(open) >= 2
    /\ \E s \in open : s.cost + GlobalState_heuristic(s) > MaxTimestep

\* state.timestep + 1 overflows: it is computed for the first joint move that
\* passes the two conflict tests
TimestepOverflows(state, moves) ==
    /\ state.timestep = MaxTimestep
    /\ \E np \in backtrack(moves, 1) :
          ~vertex_conflict(np) /\ ~edge_conflict(state.positions, np)

SolverReturned(plan) == [panic |-> FALSE, plan |-> plan]
SolverPanicked == [panic |-> TRUE, plan |-> None]

-----------------------------------------------------------------------------
(* SpecSolver: each entry point run on the instances of SolverProblems,    *)
(* one loop iteration per step, and the returned plan handed to            *)
(* validate_solution with the same grid, starts and goals.                 *)

SolverProblem(m, agents) ==
    [map |-> m,
     starts |-> [i \in 1..Len(agents) |-> Coordinate(agents[i][1][1], agents[i][1][2])],
     goals |-> [i \in 1..Len(agents) |-> Coordinate(agents[i][2][1], agents[i][2][2])]]

SolverProblems ==
    {\* two agents exchanging corners of the open 2x2 grid
     SolverProblem(GridMap(U32(2), U32(2), <<1, 1, 1, 1>>),
                   <<<<<<0, 0>>, <<1, 1>>>>, <<<<1, 1>>, <<0, 0>>>>>>),
     \* one agent along a corridor
     SolverProblem(GridMap(U32(3), U32(1), <<1, 1, 1>>),
                   <<<<<<0, 0>>, <<2, 0>>>>>>),
     \* no agents
     SolverProblem(GridMap(U32(1), U32(1), <<1>>), <<>>),
     \* two agents that start, and are to end, on the same cell
     SolverProblem(GridMap(U32(1), U32(1), <<1>>),
                   <<<<<<0, 0>>, <<0, 0>>>>, <<<<0, 0>>, <<0, 0>>>>>>),
     \* an agent that starts on a blocked cell
     SolverProblem(GridMap(U32(2), U32(1), <<1, 0>>),
                   <<<<<<1, 0>>, <<0, 0>>>>>>),
     \* two agents on one cell, one goal outside the grid: no joint move
     SolverProblem(GridMap(U32(1), U32(1), <<1>>),
                   <<<<<<0, 0>>, <<0, 0>>>>, <<<<0, 0>>, <<1, 0>>>>>>),
     \* fewer tiles than width * height
     SolverProblem(GridMap(U32(2), U32(2), <<1, 1>>),
                   <<<<<<0, 0>>, <<1, 0>>>>>>),
     \* a goal walled off from the start
     SolverProblem(GridMap(U32(3), U32(1), <<1, 0, 1>>),
                   <<<<<<0, 0>>, <<2, 0>>>>>>),
     \* a goal outside the grid
     SolverProblem(GridMap(U32(2), U32(1), <<1, 1>>),
                   <<<<<<0, 0>>, <<0, 1>>>>>>)}

InitSolver ==
    /\ overflow_checks \in BOOLEAN
    /\ \E p \in SolverProblems :
         /\ map = p.map
         /\ starts = p.starts
         /\ goals = p.goals
         /\ open = {GlobalState(p.starts, [i \in 1..Len(p.starts) |-> <<p.starts[i]>>],
                                0, 0, p.goals)}
         /\ visited = {<<p.starts, 0>>}
    /\ handler \in SolverEntries
    /\ req = [wasm_len |-> 0, solver_name |-> "", map_name |-> "", scenario_id |-> "",
              user_id |-> 0]
    /\ paths = <<>>
    /\ submission = None
    /\ pc = "search"
    /\ solved = None
    /\ result = None
    /\ response = NoResponse
    /\ db_submissions = <<>>
    /\ db_verifications = <<>>
    /\ ExecutorIdle
    /\ AstarIdle
    /\ LibraryIdle

\* the popped state has every agent on its goal: return its paths
SolverReturnPlan ==
    /\ pc = "search"
    /\ ~(overflow_checks /\ FCostOverflows)
    /\ \E state \in open :
         /\ Pops(state)
         /\ AllAtGoals(state)
         /\ open' = open \ {state}
         /\ solved' = Some(SolverReturned(Some(state.paths)))
    /\ pc' = "returned"
    /\ UNCHANGED <<request_vars, executor_vars, library_vars, astar_vars, solver_result,
                   paths, handler, submission,
                   result, response, db_vars,
                   visited>>

\* one iteration of the search loop that expands the popped state
SolverExpand ==
    /\ pc = "search"
    /\ ~(overflow_checks /\ FCostOverflows)
    /\ \E state \in open :
         /\ Pops(state)
         /\ ~AllAtGoals(state)
         /\ LET moves == moves_per_agent(handler, state, map)
            IN /\ ~moves.panic
               /\ ~(overflow_checks /\ TimestepOverflows(state, moves.val))
               /\ open' = (open \ {state}) \cup
                            {new_state(state, np) : np \in Pushed(state, moves.val)}
               /\ visited' = visited \cup
                            {<<np, WrapCounter(state.timestep + 1)>> :
                                np \in Pushed(state, moves.val)}
    /\ UNCHANGED <<request_vars, executor_vars, library_vars, astar_vars, solver_result,
                   paths, handler, submission,
                   pc, result, response, db_vars, solved>>

\* the expansion indexes the map slice out of range
SolverPanic ==
    /\ pc = "search"
    /\ \E state \in open :
         /\ Pops(state)
         /\ ~AllAtGoals(state)
         /\ moves_per_agent(handler, state, map).panic
    /\ solved' = Some(SolverPanicked)
    /\ pc' = "panicked"
    /\ UNCHANGED <<request_vars, executor_vars, library_vars, astar_vars, solver_result,
                   paths, handler, submission,
                   result, response, db_vars,
                   open, visited>>

\* a build with overflow checks: a counter addition of this iteration
\* overflows and the solver panics
SolverOverflow ==
    /\ pc = "search"
    /\ overflow_checks
    /\ \/ FCostOverflows
       \/ \E state \in open :
            /\ Pops(state)
            /\ ~AllAtGoals(state)
            /\ LET moves == moves_per_agent(handler, state, map)
               IN ~moves.panic /\ TimestepOverflows(state, moves.val)
    /\ solved' = Some(SolverPanicked)
    /\ pc' = "panicked"
    /\ UNCHANGED <<request_vars, executor_vars, library_vars, astar_vars, solver_result,
                   paths, handler, submission,
                   result, response, db_vars, open, visited>>

\* the open set is empty: no plan found
SolverReturnNone ==
    /\ pc = "search"
    /\ open = {}
    /\ solved' = Some(SolverReturned(None))
    /\ pc' = "returned"
    /\ UNCHANGED <<request_vars, executor_vars, library_vars, astar_vars, solver_result,
                   paths, handler, submission,
                   result, response, db_vars,
                   open, visited>>

\* the returned plan is validated against the instance it was solved for
ValidateReturnedPlan ==
    /\ pc = "returned"
    /\ solved[1].plan # None
    /\ paths' = solved[1].plan[1]
    /\ result' = Some(validate_solution(solved[1].plan[1], map, starts, goals,
                                         overflow_checks))
    /\ pc' = "validated"
    /\ UNCHANGED <<request_vars, executor_vars, library_vars, astar_vars, solver_result,
                   handler, submission, response,
                   db_vars, solver_vars>>

NextSolver ==
    \/ SolverReturnPlan
    \/ SolverExpand
    \/ SolverPanic
    \/ SolverOverflow
    \/ SolverReturnNone
    \/ ValidateReturnedPlan

SpecSolver == InitSolver /\ [][NextSolver]_vars

\* the cells of a grid and the joint positions of n agents on passable ones
\* (the grids of SolverProblems are far below 2^31 wide and high)
PassableCells(m) ==
    {c \in {Coordinate(x, y) : x \in 0..m.width.lo - 1, y \in 0..m.height.lo - 1} :
        OnPassable(c, m)}

\* one joint transition of a collision-free plan: every agent waits or makes
\* a cardinal move onto a passable cell, no two agents end on one cell, no
\* two agents exchange cells
JointTransition(p, q, m) ==
    /\ \A i \in 1..Len(p) : q[i] \in PassableCells(m) /\ ManhattanAtMost1(p[i], q[i])
    /\ \A i, j \in 1..Len(p) :
          i < j => q[i] # q[j] /\ ~(p[i] = q[j] /\ p[j] = q[i])

RECURSIVE JointReachable(_, _, _)
JointReachable(set, n, m) ==
    LET next == set \cup {q \in [1..n -> PassableCells(m)] :
                            \E p \in set : JointTransition(p, q, m)}
    IN IF next = set THEN set ELSE JointReachable(next, n, m)

\* the agents start on distinct passable cells
ProperStarts(m, ss) ==
    /\ \A i \in 1..Len(ss) : OnPassable(ss[i], m)
    /\ \A i, j \in 1..Len(ss) : i < j => ss[i] # ss[j]

\* the instance has a collision-free plan
HasPlan(m, ss, gs) ==
    /\ ProperStarts(m, ss)
    /\ \E q \in JointReachable({ss}, Len(ss), m) : \A i \in 1..Len(ss) : q[i] = gs[i]

\* C19 (as stated): on an instance without a collision-free plan (here: one
\* whose agents start on distinct passable cells) a run of the reference
\* solver that ends, ends by returning None.
C19_NoPlanReturnsNone ==
    (handler = "solve_mapf_centralized" /\ pc \in {"returned", "panicked"}
        /\ ProperStarts(map, starts) /\ ~HasPlan(map, starts, goals)) =>
        solved = Some(SolverReturned(None))

\* C2 (as stated): every plan either entry point returns passes
\* validate_solution with the same grid, starts and goals: valid, no errors.
C2_ReturnedPlanIsValid ==
    pc = "validated" =>
        /\ ~result[1].panic
        /\ result[1].valid
        /\ result[1].errors = <<>>

-----------------------------------------------------------------------------
(* backend/src/executor.rs: WasmExecutor::execute.                         *)
(* One WasmExecutor owns one engine; the engine's epoch is a counter that  *)
(* every timer thread spawned by an execute call on it increments.  Each   *)
(* call owns a store with its fuel and its epoch deadline.  The model      *)
(* counts time in whole seconds and fuel in single units.                  *)

TimeoutSecs == 2
FuelLimit == 2
MaxNow == 4

\* two calls on one WasmExecutor: enough for the timer of one call to outlive
\* it into the other
CallIds == {1, 2}

\* what a module is to the engine and what its solve does once called:
\* return Ok(paths), return Err(string), trap, or run until it is stopped
Module(loads, instantiates, exports_solve, solve) ==
    [loads |-> loads, instantiates |-> instantiates, exports_solve |-> exports_solve,
     solve |-> solve]

Modules ==
    {Module(FALSE, FALSE, FALSE, "none"),
     Module(TRUE, FALSE, FALSE, "none"),
     Module(TRUE, TRUE, FALSE, "none"),
     Module(TRUE, TRUE, TRUE, "ok"),
     Module(TRUE, TRUE, TRUE, "err"),
     Module(TRUE, TRUE, TRUE, "trap"),
     Module(TRUE, TRUE, TRUE, "loop")}

\* a slip: the fuel left instead of the fuel used
fuel_remaining(fuel_limit, store_fuel) == store_fuel

\* fuel_consumed = self.fuel_limit - store.get_fuel()
fuel_consumed(fuel_limit, store_fuel) == fuel_limit - store_fuel

\* start_time.elapsed().as_millis()
execution_time_ms(start_time) == (now - start_time) * 1000

SolverStats(call) ==
    [instruction_count |-> Some(fuel_consumed(FuelLimit, call.fuel)),
     execution_time_ms |-> execution_time_ms(call.start_time),
     fuel_consumed |-> Some(fuel_consumed(FuelLimit, call.fuel))]

\* a trap's diagnostic message, a sequence of words; the engine's texts are
\* taken to name what stopped the guest
TrapMessage(cause) ==
    IF cause = "deadline" THEN <<"epoch">>
    ELSE IF cause = "out of fuel" THEN <<"fuel">>
    ELSE <<>>

\* str::contains, on a sequence of words
contains(message, word) == \E i \in 1..Len(message) : message[i] = word

\* the Err(e) arm: the error string chosen from e.to_string(), as the text
\* without its argument (N, or the message that follows "Execution error")
\* and the argument
error_msg(message, timeout_secs) ==
    IF contains(message, "epoch")
      THEN [fmt |-> "Solver timeout after Ns", arg |-> <<timeout_secs>>]
    ELSE IF contains(message, "fuel")
      THEN [fmt |-> "Solver exceeded instruction limit", arg |-> <<>>]
    ELSE [fmt |-> "Execution error", arg |-> message]

\* Ok(SolverResult {..}): what execute returns from the match on the call's result
SolverResult(solution, error, call) ==
    [ok |-> TRUE, solution |-> solution, error |-> error, stats |-> Some(SolverStats(call))]

\* Err(..): what `?` returns; it carries no SolverResult and so no stats
ExecuteErr(context) ==
    [ok |-> FALSE, solution |-> None, error |-> Some(context), stats |-> None]

Call(id, module) ==
    [id |-> id, module |-> module, start_time |-> now, fuel |-> FuelLimit,
     epoch_deadline |-> engine.epoch + 1, phase |-> "Loading",
     passed |-> <<"Loading">>, stopped_by |-> "none", returned |-> None]

Finish(call, phase, stopped_by, returned) ==
    [call EXCEPT !.phase = phase, !.stopped_by = stopped_by, !.returned = Some(returned)]

Enter(call, phase) ==
    [call EXCEPT !.phase = phase, !.passed = Append(@, phase)]

Timer(id) == [call |-> id, fire_at |-> now + TimeoutSecs]

\* the variables no executor step touches
handler_vars ==
    <<request_vars, library_vars, solver_result, paths, handler, submission, pc, result, response,
      db_vars, solver_vars, astar_vars>>

InitExecutor ==
    /\ overflow_checks = FALSE
    /\ map = GridMap(U32(1), U32(1), <<1>>)
    /\ starts = <<>>
    /\ goals = <<>>
    /\ req = [wasm_len |-> 0, solver_name |-> "", map_name |-> "", scenario_id |-> "",
              user_id |-> 0]
    /\ paths = <<>>
    /\ handler = "none"
    /\ submission = None
    /\ pc = "executor"
    /\ result = None
    /\ response = NoResponse
    /\ db_submissions = <<>>
    /\ db_verifications = <<>>
    /\ open = {}
    /\ visited = {}
    /\ solved = None
    /\ ExecutorIdle
    /\ AstarIdle
    /\ LibraryIdle

\* execute, lines 60-73: the store with its fuel and deadline, the timer thread
ExecuteStart ==
    /\ pc = "executor"
    /\ Len(calls) + 1 \in CallIds
    /\ \E module \in Modules :
         calls' = Append(calls, Call(Len(calls) + 1, module))
    /\ engine' = [engine EXCEPT !.timers = @ \cup {Timer(Len(calls) + 1)}]
    /\ UNCHANGED <<now, handler_vars>>

\* the timer thread: sleep(timeout), then engine.increment_epoch()
TimerFires ==
    /\ \E t \in engine.timers :
         /\ now >= t.fire_at
         /\ engine' = [epoch |-> engine.epoch + 1, timers |-> engine.timers \ {t}]
    /\ UNCHANGED <<now, calls, handler_vars>>

\* a second passes
Tick ==
    /\ pc = "executor"
    /\ now < MaxNow
    /\ now' = now + 1
    /\ UNCHANGED <<engine, calls, handler_vars>>

\* execute, lines 75-77: Component::from_binary(..)?
Load ==
    /\ \E i \in 1..Len(calls) :
         /\ calls[i].phase = "Loading"
         /\ calls' = [calls EXCEPT ![i] =
               IF calls[i].module.loads
                 THEN Enter(@, "Instantiating")
                 ELSE Finish(@, "Failed", "load",
                             ExecuteErr("Failed to load WASM component"))]
    /\ UNCHANGED <<now, engine, handler_vars>>

\* execute, lines 79-93: instantiate_async(..)? and get_typed_func(.., "solve")?
Instantiate ==
    /\ \E i \in 1..Len(calls) :
         /\ calls[i].phase = "Instantiating"
         /\ calls' = [calls EXCEPT ![i] =
               IF ~calls[i].module.instantiates
                 THEN Finish(@, "Failed", "instantiate",
                             ExecuteErr("Failed to instantiate component"))
               ELSE IF ~calls[i].module.exports_solve
                 THEN Finish(@, "Failed", "export",
                             ExecuteErr("Failed to get solve function"))
               ELSE Enter(@, "Running")]
    /\ UNCHANGED <<now, engine, handler_vars>>

\* the guest executes one more instruction of solve
GuestRuns ==
    /\ \E i \in 1..Len(calls) :
         /\ calls[i].phase = "Running"
         /\ calls[i].fuel > 0
         /\ engine.epoch < calls[i].epoch_deadline
         /\ calls' = [calls EXCEPT ![i].fuel = @ - 1]
    /\ UNCHANGED <<now, engine, handler_vars>>

\* lines 112-133: solve returned Ok(paths)
GuestReturnsOk ==
    /\ \E i \in 1..Len(calls) :
         /\ calls[i].phase = "Running"
         /\ calls[i].module.solve = "ok"
         /\ calls' = [calls EXCEPT ![i] =
               Finish(@, "Returned", "none", SolverResult(Some(<<>>), None, @))]
    /\ UNCHANGED <<now, engine, handler_vars>>

\* lines 134-143: solve returned Err(err_msg)
GuestReturnsErr ==
    /\ \E i \in 1..Len(calls) :
         /\ calls[i].phase = "Running"
         /\ calls[i].module.solve = "err"
         /\ calls' = [calls EXCEPT ![i] =
               Finish(@, "Returned", "none", SolverResult(None, Some("guest error"), @))]
    /\ UNCHANGED <<now, engine, handler_vars>>

\* lines 145-166, the Err(e) arm: the call ended in a trap; its phase is the
\* arm of the classification that was taken
Trapped(call, cause) ==
    LET msg == error_msg(TrapMessage(cause), TimeoutSecs)
        phase == IF msg.fmt = "Solver timeout after Ns" THEN "Trapped-Timeout"
                 ELSE IF msg.fmt = "Solver exceeded instruction limit" THEN "Trapped-Fuel"
                 ELSE "Trapped-Other"
    IN Finish(call, phase, cause, SolverResult(None, Some(msg.fmt), call))

\* the guest traps on its own (unreachable, a bad memory access, ...)
GuestTraps ==
    /\ \E i \in 1..Len(calls) :
         /\ calls[i].phase = "Running"
         /\ calls[i].module.solve = "trap"
         /\ calls' = [calls EXCEPT ![i] = Trapped(@, "guest trap")]
    /\ UNCHANGED <<now, engine, handler_vars>>

\* the guest needs an instruction more and the store has no fuel left
OutOfFuel ==
    /\ \E i \in 1..Len(calls) :
         /\ calls[i].phase = "Running"
         /\ calls[i].fuel = 0
         /\ calls' = [calls EXCEPT ![i] = Trapped(@, "out of fuel")]
    /\ UNCHANGED <<now, engine, handler_vars>>

\* at a safe point the guest finds the engine's epoch at its store's deadline
EpochInterrupt ==
    /\ \E i \in 1..Len(calls) :
         /\ calls[i].phase = "Running"
         /\ engine.epoch >= calls[i].epoch_deadline
         /\ calls' = [calls EXCEPT ![i] = Trapped(@, "deadline")]
    /\ UNCHANGED <<now, engine, handler_vars>>

NextExecutor ==
    \/ ExecuteStart
    \/ TimerFires
    \/ Tick
    \/ Load
    \/ Instantiate
    \/ GuestRuns
    \/ GuestReturnsOk
    \/ GuestReturnsErr
    \/ GuestTraps
    \/ OutOfFuel
    \/ EpochInterrupt

SpecExecutor == InitExecutor /\ [][NextExecutor]_vars

\* the calls that have returned to their caller
Finished == {i \in 1..Len(calls) : calls[i].returned # None}

TerminalOutcomes == {"Returned", "Trapped-Timeout", "Trapped-Fuel", "Trapped-Other"}

\* C15: in every result execute returns, instructions_consumed is
\* fuel_limit minus the fuel left in the store, and lies in 0..fuel_limit.
C15_InstructionsWithinLimit ==
    \A i \in Finished :
        LET ret == calls[i].returned[1]
        IN ret.ok =>
             /\ ret.stats # None
             /\ ret.stats[1].instruction_count = Some(FuelLimit - calls[i].fuel)
             /\ ret.stats[1].instruction_count[1] \in 0..FuelLimit

\* C15 witness: a call ended by fuel exhaustion, having used all its fuel,
\* and another that returned having used some of it
C15_Witness ==
    \E i, j \in Finished :
        /\ calls[i].phase = "Trapped-Fuel"
        /\ calls[i].returned[1].stats[1].instruction_count = Some(FuelLimit)
        /\ calls[j].phase = "Returned"
        /\ calls[j].returned[1].stats[1].instruction_count = Some(1)

\* C16 (as stated): every execute call returns execution stats whatever its
\* outcome, the calls whose module fails to load, to instantiate or to
\* export solve included.
C16_StatsAlways ==
    \A i \in Finished : calls[i].returned[1].stats # None

\* C17 (as stated, its safety part): every execute call that has ended
\* passed through Loading, Instantiating and Running in that order and
\* ended in one of Returned, Trapped-Timeout, Trapped-Fuel, Trapped-Other.
C17_StateMachine ==
    \A i \in 1..Len(calls) :
        /\ calls[i].passed \in
              {<<"Loading">>, <<"Loading", "Instantiating">>,
               <<"Loading", "Instantiating", "Running">>}
        /\ i \in Finished =>
              /\ calls[i].passed = <<"Loading", "Instantiating", "Running">>
              /\ calls[i].phase \in TerminalOutcomes

\* C18 (as stated): a call is reported as "Solver timeout" only when its own
\* timeout has elapsed since it started, and the deadline signal that stops
\* a call's guest comes from the timer that call armed.
C18_TimeoutIsTheCallsOwn ==
    \A i \in Finished :
        LET ret == calls[i].returned[1]
        IN /\ ret.error = Some("Solver timeout after Ns") =>
                ret.stats[1].execution_time_ms >= TimeoutSecs * 1000
           /\ calls[i].stopped_by = "deadline" =>
                \A t \in engine.timers : t.call # i


------------------------------------------------------------------------------
(* astar.rs: astar_single, the single-agent search                          *)

\* start and goal coordinates run over 0..MaxCoordinate
MaxCoordinate == 3

\* struct Node
Node(coord, g_cost, node_f_cost) == [coord |-> coord, g_cost |-> g_cost, f_cost |-> node_f_cost]

\* Ord for Node, reversed for the max-heap: `node` is popped when no node of
\* the heap has a lower f_cost, or the same f_cost and a lower g_cost
PopsNode(node) ==
    \A o \in open :
        ~(o.f_cost < node.f_cost \/ (o.f_cost = node.f_cost /\ o.g_cost < node.g_cost))

\* (c.y * width + c.x) as usize, for a cell inside the bounds; the grids of
\* 2^31 columns and more used here have one row, so c.y = 0 on them
cell_idx(c, width) == IF c.y = 0 THEN c.x ELSE c.y * width.lo + c.x

\* map.get(idx).copied()
map_get(tiles, idx) == IF idx < Len(tiles) THEN Some(tiles[idx + 1]) ELSE None

\* the path read back from came_from, goal first, then reversed
RECURSIVE reconstruct(_, _)
reconstruct(curr, cf) ==
    IF curr \in DOMAIN cf THEN Append(reconstruct(cf[curr], cf), curr) ELSE <<curr>>

\* what astar_single hands back
AstarReturned(path) == [panic |-> FALSE, path |-> path]
AstarPanicked == [panic |-> TRUE, path |-> None]

\* the maps astar_single is called on
AstarGrids ==
    {GridMap(U32(3), U32(3), <<1, 1, 1, 1, 1, 1, 1, 1, 1>>),
     GridMap(U32(3), U32(3), <<1, 1, 1, 1, 0, 1, 1, 1, 1>>),
     GridMap(U32(3), U32(1), <<1, 0, 1>>),
     \* a tile that is neither 0 nor 1
     GridMap(U32(3), U32(1), <<1, 2, 1>>),
     \* a slice shorter than width * height
     GridMap(U32(2), U32(2), <<1, 1>>),
     \* 2^31 columns
     GridMap(U32High(0), U32(1), <<1, 1>>)}

InitAstar ==
    /\ overflow_checks = FALSE
    /\ map \in AstarGrids
    /\ \E sx, sy, gx, gy \in 0..MaxCoordinate :
         /\ starts = <<Coordinate(sx, sy)>>
         /\ goals = <<Coordinate(gx, gy)>>
    /\ req = [wasm_len |-> 0, solver_name |-> "", map_name |-> "", scenario_id |-> "",
              user_id |-> 0]
    /\ paths = <<>>
    /\ handler = "astar_single"
    /\ submission = None
    /\ pc = "call"
    /\ result = None
    /\ response = NoResponse
    /\ db_submissions = <<>>
    /\ db_verifications = <<>>
    /\ open = {}
    /\ visited = {}
    /\ solved = None
    /\ ExecutorIdle
    /\ AstarIdle
    /\ LibraryIdle

astar_unchanged ==
    <<request_vars, executor_vars, library_vars, solver_result, paths, handler, submission, result,
      response, db_vars, visited>>

\* lines 317-347: the bounds check, the passability check, start = goal, and
\* the first node
AstarEnter ==
    /\ pc = "call"
    /\ LET start == starts[1]
           goal == goals[1]
           out == \/ ~BelowU32(start.x, map.width) \/ ~BelowU32(start.y, map.height)
                  \/ ~BelowU32(goal.x, map.width) \/ ~BelowU32(goal.y, map.height)
           start_idx == cell_idx(start, map.width)
           goal_idx == cell_idx(goal, map.width)
       IN IF out
            THEN /\ solved' = Some(AstarReturned(None))
                 /\ pc' = "returned"
                 /\ UNCHANGED <<open, astar_vars>>
          ELSE IF map_get(map.tiles, start_idx) # Some(1) \/ map_get(map.tiles, goal_idx) # Some(1)
            THEN /\ solved' = Some(AstarReturned(None))
                 /\ pc' = "returned"
                 /\ UNCHANGED <<open, astar_vars>>
          ELSE IF start = goal
            THEN /\ solved' = Some(AstarReturned(Some(<<start>>)))
                 /\ pc' = "returned"
                 /\ UNCHANGED <<open, astar_vars>>
          ELSE /\ g_score' = (start :> 0)
               /\ open' = {Node(start, 0, heuristic(start, goal))}
               /\ pc' = "search"
               /\ UNCHANGED <<solved, came_from>>
    /\ UNCHANGED astar_unchanged

\* lines 350-360: the popped node is the goal
AstarReturnPath ==
    /\ pc = "search"
    /\ \E current \in open :
         /\ PopsNode(current)
         /\ current.coord = goals[1]
         /\ solved' = Some(AstarReturned(Some(reconstruct(goals[1], came_from))))
    /\ pc' = "returned"
    /\ UNCHANGED <<astar_unchanged, open, astar_vars>>

\* lines 362-376: the popped node is expanded
AstarExpand ==
    /\ pc = "search"
    /\ \E current \in open :
         /\ PopsNode(current)
         /\ current.coord # goals[1]
         /\ LET current_g == g_score[current.coord]
                found == neighbors(current.coord, map.width, map.height, map.tiles)
                tentative_g == current_g + 1
                better == {found.val[i] : i \in {i \in 1..Len(found.val) :
                              \/ found.val[i] \notin DOMAIN g_score
                              \/ tentative_g < g_score[found.val[i]]}}
            IN /\ ~found.panic
               /\ came_from' = [c \in better |-> current.coord] @@ came_from
               /\ g_score' = [c \in better |-> tentative_g] @@ g_score
               /\ open' = (open \ {current}) \cup
                            {Node(c, tentative_g, tentative_g + heuristic(c, goals[1])) :
                                c \in better}
    /\ UNCHANGED <<astar_unchanged, pc, solved>>

\* line 292 inside the loop: map[idx] past the end of the slice
AstarPanic ==
    /\ pc = "search"
    /\ \E current \in open :
         /\ PopsNode(current)
         /\ current.coord # goals[1]
         /\ neighbors(current.coord, map.width, map.height, map.tiles).panic
    /\ solved' = Some(AstarPanicked)
    /\ pc' = "panicked"
    /\ UNCHANGED <<astar_unchanged, open, astar_vars>>

\* line 378: the heap is empty
AstarReturnNone ==
    /\ pc = "search"
    /\ open = {}
    /\ solved' = Some(AstarReturned(None))
    /\ pc' = "returned"
    /\ UNCHANGED <<astar_unchanged, open, astar_vars>>

NextAstar ==
    \/ AstarEnter
    \/ AstarReturnPath
    \/ AstarExpand
    \/ AstarPanic
    \/ AstarReturnNone

SpecAstar == InitAstar /\ [][NextAstar]_vars

\* the passable cells one cardinal move from c
CardinalSteps(c, m) ==
    {d \in {Coordinate(c.x + 1, c.y), Coordinate(c.x - 1, c.y),
            Coordinate(c.x, c.y + 1), Coordinate(c.x, c.y - 1)} : OnPassable(d, m)}

\* the cells at most k cardinal moves over passable cells from the cells of set
RECURSIVE WithinSteps(_, _, _)
WithinSteps(set, m, k) ==
    IF k = 0 THEN set
    ELSE WithinSteps(set \cup UNION {CardinalSteps(c, m) : c \in set}, m, k - 1)

\* a map has no more passable cells than tiles
MostCells(m) == Len(m.tiles)

Reachable(from, to, m) == to \in WithinSteps({from}, m, MostCells(m))

ShortestDistance(from, to, m) ==
    CHOOSE k \in 0..MostCells(m) :
        /\ to \in WithinSteps({from}, m, k)
        /\ \A l \in 0..k - 1 : to \notin WithinSteps({from}, m, l)

\* begins at the start, ends at the goal, cardinal moves over passable cells
PathFromTo(steps, from, to, m) ==
    /\ steps # <<>>
    /\ steps[1] = from
    /\ steps[Len(steps)] = to
    /\ \A i \in 1..Len(steps) : OnPassable(steps[i], m)
    /\ \A i \in 1..Len(steps) - 1 :
          steps[i] # steps[i + 1] /\ ManhattanAtMost1(steps[i], steps[i + 1])

AstarEnded == pc \in {"returned", "panicked"} /\ handler = "astar_single"

\* C20 (as stated): astar_single returns None when the start or the goal is
\* out of bounds or not passable or the goal is unreachable over passable
\* cells; otherwise it returns a path from the start to the goal of cardinal
\* moves over passable in-bounds cells with shortest distance + 1 steps.  On
\* the open 3x3 grid (0,0) to (2,0) takes 3 steps; on the 3x3 grid with the
\* centre blocked (0,1) to (2,1) takes 5 steps and avoids (1,1).
C20_AstarSingleContract ==
    AstarEnded =>
        LET start == starts[1]
            goal == goals[1]
        IN IF ~OnPassable(start, map) \/ ~OnPassable(goal, map) \/ ~Reachable(start, goal, map)
             THEN solved = Some(AstarReturned(None))
           ELSE /\ ~solved[1].panic
                /\ solved[1].path # None
                /\ PathFromTo(solved[1].path[1], start, goal, map)
                /\ Len(solved[1].path[1]) = ShortestDistance(start, goal, map) + 1
                /\ Coordinate(1, 1) \in {solved[1].path[1][i] : i \in 1..Len(solved[1].path[1])}
                     => TileAt(Coordinate(1, 1), map) = Some(1)


------------------------------------------------------------------------------
(* validation.rs on the head-on swap: two agents exchanging the ends of     *)
(* the open 5x1 row, neither ever waiting                                   *)

\* the longest path of a plan, in steps
MaxSwapSteps == 7

SwapRow == GridMap(U32(5), U32(1), <<1, 1, 1, 1, 1>>)

InitSwap ==
    /\ overflow_checks \in BOOLEAN
    /\ map = SwapRow
    /\ starts = <<Coordinate(0, 0), Coordinate(4, 0)>>
    /\ goals = <<Coordinate(4, 0), Coordinate(0, 0)>>
    /\ req = [wasm_len |-> 0, solver_name |-> "", map_name |-> "", scenario_id |-> "",
              user_id |-> 0]
    /\ paths = <<<<Coordinate(0, 0)>>, <<Coordinate(4, 0)>>>>
    /\ handler = "validate_solution"
    /\ submission = None
    /\ pc = "plan"
    /\ result = None
    /\ response = NoResponse
    /\ db_submissions = <<>>
    /\ db_verifications = <<>>
    /\ open = {}
    /\ visited = {}
    /\ solved = None
    /\ ExecutorIdle
    /\ AstarIdle
    /\ LibraryIdle

swap_unchanged ==
    <<request_vars, executor_vars, library_vars, astar_vars, solver_result, handler, submission, response,
      db_vars, solver_vars>>

\* an agent's path grows by a move to the cell on its left or on its right
SwapPushStep ==
    /\ pc = "plan"
    /\ \E i \in 1..Len(paths), d \in {-1, 1} :
         LET last == paths[i][Len(paths[i])]
             to == Coordinate(last.x + d, last.y)
         IN /\ Len(paths[i]) < MaxSwapSteps
            /\ to.x \in 0..4
            /\ paths' = [paths EXCEPT ![i] = Append(@, to)]
    /\ UNCHANGED <<swap_unchanged, pc, result>>

CallValidateSolution ==
    /\ pc = "plan"
    /\ result' = Some(validate_solution(paths, map, starts, goals, overflow_checks))
    /\ pc' = "validated"
    /\ UNCHANGED <<swap_unchanged, paths>>

NextSwap ==
    \/ SwapPushStep
    \/ CallValidateSolution

SpecSwap == InitSwap /\ [][NextSwap]_vars

\* no two consecutive equal steps in any path
NeverWaits(ps) ==
    \A i \in 1..Len(ps) : \A t \in 1..Len(ps[i]) - 1 : ps[i][t] # ps[i][t + 1]

\* every path leads from its agent's start to its agent's goal
LeadsToGoals(ps, ss, gs) ==
    /\ Len(ps) = Len(ss)
    /\ \A i \in 1..Len(ps) :
          ps[i] # <<>> /\ ps[i][1] = ss[i] /\ ps[i][Len(ps[i])] = gs[i]

Reports(type) ==
    \E k \in 1..Len(result[1].errors) : result[1].errors[k].error_type = type

\* a plan of the head-on swap without waits has been validated
SwapValidated ==
    /\ handler = "validate_solution"
    /\ pc = "validated"
    /\ ~result[1].panic
    /\ NeverWaits(paths)
    /\ LeadsToGoals(paths, starts, goals)

------------------------------------------------------------------------------
(* astar.rs: solve_mapf, the prioritized planner                            *)

\* the planner is called with 1..MaxPrioritizedAgents agents
MaxPrioritizedAgents == 2

\* struct Action
Action(action_type, from, target, priority) ==
    [action_type |-> action_type, from |-> from, target |-> target, priority |-> priority]

\* sort_by_key(|a| a.priority): a stable sort, actions of equal priority keep
\* the order they were pushed in
RECURSIVE sort_by_priority(_)
sort_by_priority(actions) ==
    IF actions = <<>> THEN <<>>
    ELSE LET least == CHOOSE p \in {actions[k].priority : k \in 1..Len(actions)} :
                         \A k \in 1..Len(actions) : p <= actions[k].priority
             IsLeast(a) == a.priority = least
             IsMore(a) == a.priority # least
         IN SelectSeq(actions, IsLeast) \o sort_by_priority(SelectSeq(actions, IsMore))

\* fn get_prioritized_actions: the Move actions in the order of neighbors,
\* then the NoOp, sorted by priority
get_prioritized_actions(pos, goal, width, height, tiles) ==
    LET found == neighbors(pos, width, height, tiles)
        moves == [k \in 1..Len(found.val) |->
                     Action("Move", pos, found.val[k], heuristic(found.val[k], goal))]
        noop == Action("NoOp", pos, pos, heuristic(pos, goal) + 1)
    IN IF found.panic THEN [panic |-> TRUE, val |-> <<>>]
       ELSE Value(sort_by_priority(Append(moves, noop)))

\* fn has_conflict
has_conflict(action_a, action_b) ==
    \/ action_a.target = action_b.target
    \/ /\ action_a.action_type = "Move" /\ action_b.action_type = "Move"
       /\ action_a.from = action_b.target /\ action_a.target = action_b.from

\* the first of `actions` from index k on that conflicts with no committed
\* action: Some(action), or None
RECURSIVE first_free(_, _, _)
first_free(actions, k, committed) ==
    IF k > Len(actions) THEN None
    ELSE IF \E j \in 1..Len(committed) : has_conflict(actions[k], committed[j])
      THEN first_free(actions, k + 1, committed)
    ELSE Some(actions[k])

\* the loop over the agents of one timestep, from agent i (0-based) on: the
\* committed actions, or the agent that is stuck, or a panic
RECURSIVE commit_from(_, _)
commit_from(i, committed) ==
    IF i >= Len(agent_positions) THEN [panic |-> FALSE, stuck |-> FALSE, val |-> committed]
    ELSE LET actions == get_prioritized_actions(agent_positions[i + 1], goals[i + 1],
                                                map.width, map.height, map.tiles)
         IN IF actions.panic THEN [panic |-> TRUE, stuck |-> FALSE, val |-> <<>>]
            ELSE LET choice == first_free(actions.val, 1, committed)
                 IN IF choice = None THEN [panic |-> FALSE, stuck |-> TRUE, val |-> <<>>]
                    ELSE commit_from(i + 1, Append(committed, choice[1]))

\* the factor of max_timesteps.  The code's factor is 1000; the planner is
\* deterministic in the agents' positions, so a run that has not finished
\* after (number of cells) ^ (number of agents) timesteps repeats itself
\* until the cap and returns None.  The model's factor covers that many
\* timesteps on PrioritizedGrids and keeps the runs to None short.
TimestepsFactor == 4

\* (width + height) * factor, for the small grids planned here
max_timesteps == (map.width.lo + map.height.lo) * TimestepsFactor

all_done == \A i \in 1..Len(agent_positions) : agent_positions[i] = goals[i]

\* the planner goes round its loop once more
Planning == pc = "planning" /\ prio_t < max_timesteps /\ ~all_done

PrioritizedGrids ==
    {GridMap(U32(3), U32(1), <<1, 1, 1>>),
     GridMap(U32(2), U32(2), <<1, 1, 1, 1>>),
     GridMap(U32(2), U32(2), <<1, 1, 1, 0>>),
     \* a row of four cells with a dead end below its second cell
     GridMap(U32(4), U32(2), <<1, 1, 1, 1, 0, 1, 0, 0>>),
     \* a slice shorter than width * height
     GridMap(U32(2), U32(2), <<1, 1>>)}

\* the cells inside a grid
GridCells(m) == {Coordinate(x, y) : x \in 0..m.width.lo - 1, y \in 0..m.height.lo - 1}

InitPrioritized ==
    /\ overflow_checks = FALSE
    /\ map \in PrioritizedGrids
    /\ \E n \in 1..MaxPrioritizedAgents :
         /\ starts \in [1..n -> GridCells(map)]
         /\ goals \in [1..n -> GridCells(map)]
    /\ agent_positions = starts
    /\ paths = [i \in 1..Len(starts) |-> <<starts[i]>>]
    /\ prio_t = 0
    /\ req = [wasm_len |-> 0, solver_name |-> "", map_name |-> "", scenario_id |-> "",
              user_id |-> 0]
    /\ handler = "solve_mapf"
    /\ submission = None
    /\ pc = "planning"
    /\ result = None
    /\ response = NoResponse
    /\ db_submissions = <<>>
    /\ db_verifications = <<>>
    /\ open = {}
    /\ visited = {}
    /\ solved = None
    /\ ExecutorIdle
    /\ AstarIdle
    /\ CoreIdle
    /\ AuthIdle

prioritized_unchanged ==
    <<request_vars, executor_vars, astar_vars, core_vars, auth_vars, solver_result, handler,
      submission, result, response, db_vars, open, visited>>

\* one timestep: every agent commits an action, then the actions are applied
PrioritizedStep ==
    /\ Planning
    /\ LET committed == commit_from(0, <<>>)
       IN /\ ~committed.panic /\ ~committed.stuck
          /\ agent_positions' = [i \in 1..Len(agent_positions) |-> committed.val[i].target]
          /\ paths' = [i \in 1..Len(paths) |->
                          LET target == committed.val[i].target
                              last == paths[i][Len(paths[i])]
                          IN IF target # last \/ target # goals[i]
                               THEN Append(paths[i], target) ELSE paths[i]]
    /\ prio_t' = prio_t + 1
    /\ UNCHANGED <<prioritized_unchanged, pc, solved>>

\* an agent has no action left: return None
PrioritizedStuck ==
    /\ Planning
    /\ commit_from(0, <<>>).stuck
    /\ solved' = Some(SolverReturned(None))
    /\ pc' = "returned"
    /\ UNCHANGED <<prioritized_unchanged, prioritized_vars, paths>>

\* neighbors indexes past the end of the map slice
PrioritizedPanic ==
    /\ Planning
    /\ commit_from(0, <<>>).panic
    /\ solved' = Some(SolverPanicked)
    /\ pc' = "panicked"
    /\ UNCHANGED <<prioritized_unchanged, prioritized_vars, paths>>

\* the loop has ended: the paths if every agent stands on its goal, else None
PrioritizedFinish ==
    /\ pc = "planning"
    /\ ~Planning
    /\ solved' = Some(SolverReturned(IF all_done THEN Some(paths) ELSE None))
    /\ pc' = "returned"
    /\ UNCHANGED <<prioritized_unchanged, prioritized_vars, paths>>

NextPrioritized ==
    \/ PrioritizedStep
    \/ PrioritizedStuck
    \/ PrioritizedPanic
    \/ PrioritizedFinish

SpecPrioritized == InitPrioritized /\ [][NextPrioritized]_vars

\* a plan has come back from solve_mapf, called with agents that start on
\* distinct passable cells
PrioritizedPlan ==
    /\ handler = "solve_mapf"
    /\ pc = "returned"
    /\ solved[1].plan # None
    /\ ProperStarts(map, starts)

\* C22 (as stated): every plan solve_mapf returns (here: for agents that
\* start on distinct passable cells) has one path per agent, each from the
\* agent's start to its goal by cardinal moves or waits, and has no vertex
\* collision and no edge collision when the path index is read as the
\* timestep and agents park on their last cell.
C22_PrioritizedPlanIsCollisionFree ==
    PrioritizedPlan =>
        LET ps == solved[1].plan[1]
        IN /\ Len(ps) = Len(starts)
           /\ \A i \in 1..Len(ps) :
                /\ ps[i] # <<>>
                /\ ps[i][1] = starts[i]
                /\ ps[i][Len(ps[i])] = goals[i]
                /\ \A t \in 1..Len(ps[i]) - 1 : ManhattanAtMost1(ps[i][t], ps[i][t + 1])
           /\ \A i, j \in 1..Len(ps) : \A t \in 0..Tmax(ps) - 1 :
                i < j => ~SharesCell(ps, i, j, t) /\ ~Swaps(ps, i, j, t)


------------------------------------------------------------------------------
(* mapf-core/src/map.rs: GridMap::from_bytes and GridMap::to_bytes          *)

\* the longest byte slice handed to from_bytes
MaxBytes == 4

\* widths and heights handed to from_bytes: small ones, and 2^16
Dimensions == {0, 1, 2, 3, 65536}
ByteValues == {0, 1, 2}

\* width * height on u32, for factors up to 2^16: only 2^16 * 2^16 leaves
\* the range, and wraps to 0
MulU32(a, b, oc) ==
    IF a >= 65536 /\ b >= 65536 THEN (IF oc THEN Panicked ELSE Value(0))
    ELSE Value(a * b)

\* struct GridMap of mapf-core; tiles are "Passable" or "Blocked"
CoreGridMap(width, height, tiles) == [width |-> width, height |-> height, tiles |-> tiles]

\* GridMap::from_bytes: a panic, or Option<GridMap>
from_bytes(width, height, data, oc) ==
    LET product == MulU32(width, height, oc)
    IN IF product.panic THEN [panic |-> TRUE, val |-> None]
       ELSE IF Len(data) # product.val THEN Value(None)
       ELSE Value(Some(CoreGridMap(width, height,
               [i \in 1..Len(data) |-> IF data[i] # 0 THEN "Passable" ELSE "Blocked"])))

\* a slip: the two byte values exchanged
to_bytes_inverted(g) ==
    [i \in 1..Len(g.tiles) |-> IF g.tiles[i] = "Passable" THEN 0 ELSE 1]

\* GridMap::to_bytes
to_bytes(g) ==
    [i \in 1..Len(g.tiles) |-> IF g.tiles[i] = "Passable" THEN 1 ELSE 0]

\* the byte slices of length up to n
ByteSeqs(n) == UNION {[1..k -> ByteValues] : k \in 0..n}

core_unchanged ==
    <<request_vars, executor_vars, astar_vars, prioritized_vars, auth_vars, solver_result, paths,
      handler, submission, result, response, db_vars, solver_vars>>

\* everything but the mapf-core variables, before any call
CoreStart ==
    /\ map = GridMap(U32(1), U32(1), <<1>>)
    /\ starts = <<>>
    /\ goals = <<>>
    /\ req = [wasm_len |-> 0, solver_name |-> "", map_name |-> "", scenario_id |-> "",
              user_id |-> 0]
    /\ paths = <<>>
    /\ handler = "none"
    /\ submission = None
    /\ result = None
    /\ response = NoResponse
    /\ db_submissions = <<>>
    /\ db_verifications = <<>>
    /\ open = {}
    /\ visited = {}
    /\ solved = None
    /\ ExecutorIdle
    /\ AstarIdle
    /\ PrioritizedIdle
    /\ AuthIdle

InitBytes ==
    /\ overflow_checks \in BOOLEAN
    /\ CoreStart
    /\ \E width, height \in Dimensions, data \in ByteSeqs(MaxBytes) :
         input = [width |-> width, height |-> height, data |-> data]
    /\ parsed = None
    /\ bytes = None
    /\ pc = "bytes"

CallFromBytes ==
    /\ pc = "bytes"
    /\ parsed' = Some(from_bytes(input.width, input.height, input.data, overflow_checks))
    /\ pc' = "from_bytes"
    /\ UNCHANGED <<core_unchanged, input, bytes>>

CallToBytes ==
    /\ pc = "from_bytes"
    /\ ~parsed[1].panic
    /\ parsed[1].val # None
    /\ bytes' = Some(to_bytes(parsed[1].val[1]))
    /\ pc' = "to_bytes"
    /\ UNCHANGED <<core_unchanged, input, parsed>>

NextBytes ==
    \/ CallFromBytes
    \/ CallToBytes

SpecBytes == InitBytes /\ [][NextBytes]_vars

\* n = w * h over the integers, without forming the product
IsProduct(n, w, h) == IF w = 0 \/ h = 0 THEN n = 0 ELSE n % w = 0 /\ n \div w = h

\* w * h is below 2^32, for w and h up to 2^16
ProductFitsU32(w, h) == ~(w >= 65536 /\ h >= 65536)

\* from_bytes has been called, and to_bytes on the grid it gave
FromBytesCalled == pc \in {"from_bytes", "to_bytes"}

\* from_bytes succeeded exactly when the length is W * H
SucceedsOnProduct ==
    /\ ~parsed[1].panic
    /\ (parsed[1].val # None) <=> IsProduct(Len(input.data), input.width, input.height)

------------------------------------------------------------------------------
(* mapf-core/src/map.rs: GridMap::parse.  A text is the sequence of its     *)
(* lines (str::lines), a line the sequence of its characters.               *)

\* the header part and the row part of the texts parsed have up to this many
\* lines
MaxHeaderLines == 3
MaxRowLines == 2

\* the white space of the texts: the blank and the tab
WhiteSpace == {" ", "\t"}

\* str::trim
RECURSIVE TrimStart(_)
TrimStart(line) ==
    IF line # <<>> /\ Head(line) \in WhiteSpace THEN TrimStart(Tail(line)) ELSE line

RECURSIVE TrimEnd(_)
TrimEnd(line) ==
    IF line # <<>> /\ line[Len(line)] \in WhiteSpace
      THEN TrimEnd(SubSeq(line, 1, Len(line) - 1)) ELSE line

Trim(line) == TrimEnd(TrimStart(line))

\* the ASCII lower case of the letters of "map"
ToAsciiLower(ch) ==
    CASE ch = "M" -> "m"
      [] ch = "A" -> "a"
      [] ch = "P" -> "p"
      [] OTHER -> ch

\* line.eq_ignore_ascii_case("map")
IsMapLine(line) ==
    [i \in 1..Len(line) |-> ToAsciiLower(line[i])] = <<"m", "a", "p">>

\* line.strip_prefix(prefix): Some(rest), or None
strip_prefix(line, prefix) ==
    IF Len(line) >= Len(prefix) /\ SubSeq(line, 1, Len(prefix)) = prefix
      THEN Some(SubSeq(line, Len(prefix) + 1, Len(line)))
      ELSE None

Digits == <<"0", "1", "2", "3", "4", "5", "6", "7", "8", "9">>
DigitValue(ch) == (CHOOSE d \in 1..10 : Digits[d] = ch) - 1
IsDigit(ch) == \E d \in 1..10 : Digits[d] = ch

RECURSIVE DecimalValue(_)
DecimalValue(digits) ==
    IF digits = <<>> THEN 0
    ELSE DecimalValue(SubSeq(digits, 1, Len(digits) - 1)) * 10 + DigitValue(digits[Len(digits)])

\* str::parse::<u32>, on texts of fewer than ten characters: an optional
\* '+' and then one decimal digit at least; Some(n), or None
parse_u32(text) ==
    LET digits == IF text # <<>> /\ Head(text) = "+" THEN Tail(text) ELSE text
    IN IF digits # <<>> /\ \A i \in 1..Len(digits) : IsDigit(digits[i])
         THEN Some(DecimalValue(digits)) ELSE None

\* enum MapError
MissingHeader(field) == [kind |-> "MissingHeader", field |-> field]
InvalidHeader(field, value) == [kind |-> "InvalidHeader", field |-> field, value |-> value]
DimensionMismatch(expected, got) == [kind |-> "DimensionMismatch", expected |-> expected, got |-> got]
RowWidthMismatch(row, expected, got) == [kind |-> "RowWidthMismatch", row |-> row, expected |-> expected, got |-> got]

\* Result<GridMap, MapError>, or a panic
ParseOk(g) == [panic |-> FALSE, val |-> Some(g), err |-> None]
ParseErr(e) == [panic |-> FALSE, val |-> None, err |-> Some(e)]
ParsePanicked == [panic |-> TRUE, val |-> None, err |-> None]

\* fn char_to_tile
char_to_tile(ch) == IF ch \in {".", "G", "S"} THEN "Passable" ELSE "Blocked"

\* lines 58-84: the header loop from line k on.  It ends at the map line or
\* at the end of the text, or returns an InvalidHeader error; `next` is the
\* first line the row loop will see
RECURSIVE header_loop(_, _, _, _, _)
header_loop(lines, k, map_type, height, width) ==
    IF k > Len(lines)
      THEN [err |-> None, map_type |-> map_type, height |-> height, width |-> width, next |-> k]
    ELSE LET line == Trim(lines[k])
             as_type == strip_prefix(line, <<"t", "y", "p", "e", " ">>)
             as_height == strip_prefix(line, <<"h", "e", "i", "g", "h", "t", " ">>)
             as_width == strip_prefix(line, <<"w", "i", "d", "t", "h", " ">>)
         IN IF IsMapLine(line)
              THEN [err |-> None, map_type |-> map_type, height |-> height, width |-> width,
                    next |-> k + 1]
            ELSE IF as_type # None
              THEN header_loop(lines, k + 1, Some(Trim(as_type[1])), height, width)
            ELSE IF as_height # None
              THEN IF parse_u32(Trim(as_height[1])) = None
                     THEN [err |-> Some(InvalidHeader("height", as_height[1])),
                           map_type |-> map_type, height |-> height, width |-> width, next |-> k]
                     ELSE header_loop(lines, k + 1, map_type, parse_u32(Trim(as_height[1])), width)
            ELSE IF as_width # None
              THEN IF parse_u32(Trim(as_width[1])) = None
                     THEN [err |-> Some(InvalidHeader("width", as_width[1])),
                           map_type |-> map_type, height |-> height, width |-> width, next |-> k]
                     ELSE header_loop(lines, k + 1, map_type, height, parse_u32(Trim(as_width[1])))
            ELSE header_loop(lines, k + 1, map_type, height, width)

\* lines 94-119: the row loop from line k on, and the result
RECURSIVE row_loop(_, _, _, _, _, _)
row_loop(lines, k, width, height, tiles, row_count) ==
    IF k > Len(lines) \/ row_count >= height
      THEN IF row_count < height THEN ParseErr(DimensionMismatch(height, row_count))
           ELSE ParseOk(CoreGridMap(width, height, tiles))
    ELSE IF Len(lines[k]) # width
      THEN ParseErr(RowWidthMismatch(row_count, width, Len(lines[k])))
    ELSE row_loop(lines, k + 1, width, height,
                  tiles \o [i \in 1..Len(lines[k]) |-> char_to_tile(lines[k][i])],
                  row_count + 1)

\* GridMap::parse
GridMap_parse(lines, oc) ==
    LET header == header_loop(lines, 1, None, None, None)
    IN IF header.err # None THEN ParseErr(header.err[1])
       ELSE IF header.map_type = None THEN ParseErr(MissingHeader("type"))
       ELSE IF header.height = None THEN ParseErr(MissingHeader("height"))
       ELSE IF header.width = None THEN ParseErr(MissingHeader("width"))
       ELSE IF MulU32(header.width[1], header.height[1], oc).panic THEN ParsePanicked
       ELSE row_loop(lines, header.next, header.width[1], header.height[1], <<>>, 0)

\* the lines the texts are made of
HeaderLines ==
    {<<"t", "y", "p", "e", " ", "o", "c", "t", "i", "l", "e">>,
     <<"h", "e", "i", "g", "h", "t", " ", "0">>,
     <<"h", "e", "i", "g", "h", "t", " ", "1">>,
     <<"h", "e", "i", "g", "h", "t", " ", "2">>,
     <<"h", "e", "i", "g", "h", "t", " ", "6", "5", "5", "3", "6">>,
     <<"w", "i", "d", "t", "h", " ", "2">>,
     <<"w", "i", "d", "t", "h", " ", "6", "5", "5", "3", "6">>,
     <<"w", "i", "d", "t", "h", " ", "x">>}
\* the map line, as it is and with a blank and in upper case
MapLines == {<<"m", "a", "p">>, <<" ", "M", "A", "P">>}
RowLines == {<<".", ".">>, <<"S", "@">>, <<"G">>}

\* the sequences of up to n elements of a set
SeqsUpTo(set, n) == UNION {[1..k -> set] : k \in 0..n}

\* header lines, then a map line or none, then rows
MapTexts ==
    {h \o m \o r : h \in SeqsUpTo(HeaderLines, MaxHeaderLines),
                   m \in {<<>>} \cup {<<l>> : l \in MapLines},
                   r \in SeqsUpTo(RowLines, MaxRowLines)}

InitParse ==
    /\ overflow_checks \in BOOLEAN
    /\ CoreStart
    /\ input \in MapTexts
    /\ parsed = None
    /\ bytes = None
    /\ pc = "text"

CallParse ==
    /\ pc = "text"
    /\ parsed' = Some(GridMap_parse(input, overflow_checks))
    /\ pc' = "parsed"
    /\ UNCHANGED <<core_unchanged, input, bytes>>

\* to_bytes on the grid parse gave
CallToBytesOfParsed ==
    /\ pc = "parsed"
    /\ parsed[1].val # None
    /\ bytes' = Some(to_bytes(parsed[1].val[1]))
    /\ pc' = "to_bytes"
    /\ UNCHANGED <<core_unchanged, input, parsed>>

NextParse ==
    \/ CallParse
    \/ CallToBytesOfParsed

SpecParse == InitParse /\ [][NextParse]_vars


\* the position of the map line, 0 when the text has none
MapLineAt(lines) ==
    IF \E k \in 1..Len(lines) : IsMapLine(Trim(lines[k]))
      THEN CHOOSE k \in 1..Len(lines) :
             /\ IsMapLine(Trim(lines[k]))
             /\ \A l \in 1..k - 1 : ~IsMapLine(Trim(lines[l]))
      ELSE 0

\* the header part of a text: the lines before the map line, every line
\* when there is none
HeaderOf(lines) ==
    IF MapLineAt(lines) > 0 THEN SubSeq(lines, 1, MapLineAt(lines) - 1) ELSE lines

\* the values of the header `name`, in the order of the text
HeaderValues(lines, name) ==
    LET before == HeaderOf(lines)
        Named(line) == strip_prefix(Trim(line), name) # None
        named == SelectSeq(before, Named)
    IN [k \in 1..Len(named) |-> Trim(strip_prefix(Trim(named[k]), name)[1])]

TypeHeader == <<"t", "y", "p", "e", " ">>
HeightHeader == <<"h", "e", "i", "g", "h", "t", " ">>
WidthHeader == <<"w", "i", "d", "t", "h", " ">>

\* the header appears before the map line, each time with a number
NumberHeader(lines, name) ==
    /\ HeaderValues(lines, name) # <<>>
    /\ \A k \in 1..Len(HeaderValues(lines, name)) : parse_u32(HeaderValues(lines, name)[k]) # None

\* the number the header gives (its last occurrence)
HeaderNumber(lines, name) ==
    parse_u32(HeaderValues(lines, name)[Len(HeaderValues(lines, name))])[1]

\* the lines after the map line
RowsOf(lines) ==
    IF MapLineAt(lines) > 0 THEN SubSeq(lines, MapLineAt(lines) + 1, Len(lines)) ELSE <<>>

\* the three headers before a map line, then height rows of width characters
WellFormedMap(lines) ==
    /\ MapLineAt(lines) > 0
    /\ HeaderValues(lines, TypeHeader) # <<>>
    /\ NumberHeader(lines, HeightHeader)
    /\ NumberHeader(lines, WidthHeader)
    /\ Len(RowsOf(lines)) >= HeaderNumber(lines, HeightHeader)
    /\ \A y \in 1..HeaderNumber(lines, HeightHeader) :
          Len(RowsOf(lines)[y]) = HeaderNumber(lines, WidthHeader)

\* the grid a well-formed text describes
DescribedGrid(lines) ==
    LET w == HeaderNumber(lines, WidthHeader)
        h == HeaderNumber(lines, HeightHeader)
    IN CoreGridMap(w, h,
          [i \in 1..w * h |->
              IF RowsOf(lines)[((i - 1) \div w) + 1][((i - 1) % w) + 1] \in {".", "G", "S"}
                THEN "Passable" ELSE "Blocked"])

\* the error names what is wrong with the text
ErrorFits(lines, e) ==
    /\ e.kind \in {"MissingHeader", "InvalidHeader", "RowWidthMismatch", "DimensionMismatch"}
    /\ e.kind \in {"RowWidthMismatch", "DimensionMismatch"} =>
         NumberHeader(lines, HeightHeader) /\ NumberHeader(lines, WidthHeader)
    /\ e.kind = "RowWidthMismatch" =>
         /\ e.row < HeaderNumber(lines, HeightHeader)
         /\ e.row < Len(RowsOf(lines))
         /\ Len(RowsOf(lines)[e.row + 1]) # HeaderNumber(lines, WidthHeader)
         /\ \A y \in 1..e.row : Len(RowsOf(lines)[y]) = HeaderNumber(lines, WidthHeader)
    /\ e.kind = "DimensionMismatch" =>
         Len(RowsOf(lines)) < HeaderNumber(lines, HeightHeader)

ParseCalled == pc \in {"parsed", "to_bytes"} /\ handler = "none" /\ input \in MapTexts

\* C24 (as stated): GridMap::parse succeeds exactly when the type, height and
\* width headers appear with valid values before the map line and the map
\* line is followed by at least height rows of which the first height have
\* exactly width characters; the grid then has those dimensions, with '.',
\* 'G' and 'S' Passable and every other character Blocked; otherwise parse
\* fails with MissingHeader, InvalidHeader, RowWidthMismatch for the first
\* offending row, or DimensionMismatch for too few rows.
C24_ParseContract ==
    ParseCalled =>
        IF WellFormedMap(input)
          THEN parsed[1] = ParseOk(DescribedGrid(input))
          ELSE /\ ~parsed[1].panic
               /\ parsed[1].val = None
               /\ parsed[1].err # None
               /\ ErrorFits(input, parsed[1].err[1])



(***************************************************************************)
(* mapf-core: Scenario::parse (scenario.rs).  A text is the sequence of    *)
(* its lines, a line the sequence of its characters.                       *)
(***************************************************************************)
MaxScenarioLines == 3

\* enum ScenarioError; the reason of a MalformedEntry is kept by its parts
MissingVersion == [kind |-> "MissingVersion"]
InvalidVersion(rest) == [kind |-> "InvalidVersion", rest |-> rest]
MalformedEntry(line, reason) == [kind |-> "MalformedEntry", line |-> line, reason |-> reason]

\* format!("expected 9 columns, got {}", parts.len())
ExpectedColumns(got) == [expected |-> 9, got |-> got]
\* format!("invalid {}: {}", name, parts[idx])
InvalidField(name, text) == [invalid |-> name, text |-> text]

\* trimmed.split('\t').collect(): the pieces between the tabs, one more than
\* there are tabs
RECURSIVE split_tab(_)
split_tab(line) ==
    IF \E i \in 1..Len(line) : line[i] = "\t"
      THEN LET i == CHOOSE j \in 1..Len(line) :
                      line[j] = "\t" /\ \A l \in 1..j - 1 : line[l] # "\t"
           IN <<SubSeq(line, 1, i - 1)>> \o split_tab(SubSeq(line, i + 1, Len(line)))
      ELSE <<line>>

\* str::parse::<f64>, on texts of digits and '.': digits with one '.' at
\* most; the value is mantissa / 10^scale.  Some(v), or None
parse_f64(text) ==
    LET dots == {i \in 1..Len(text) : text[i] = "."}
        digits == SelectSeq(text, IsDigit)
    IN IF /\ digits # <<>>
          /\ Cardinality(dots) <= 1
          /\ \A i \in 1..Len(text) : IsDigit(text[i]) \/ text[i] = "."
         THEN Some([mantissa |-> DecimalValue(digits),
                    scale |-> IF dots = {} THEN 0
                              ELSE Len(text) - (CHOOSE i \in dots : TRUE)])
         ELSE None

\* the u32 columns in the order the entry literal parses them (lines 111-118)
U32Fields ==
    <<[idx |-> 0, name |-> "bucket"], [idx |-> 2, name |-> "width"],
      [idx |-> 3, name |-> "height"], [idx |-> 4, name |-> "start_x"],
      [idx |-> 5, name |-> "start_y"], [idx |-> 6, name |-> "goal_x"],
      [idx |-> 7, name |-> "goal_y"]>>

\* lines 96-120: the entry of a row of nine columns at least, or the error of
\* the first column that does not parse
ScenarioEntry(parts, line_no) ==
    LET bad == {f \in 1..Len(U32Fields) : parse_u32(parts[U32Fields[f].idx + 1]) = None}
        u32(idx) == parse_u32(parts[idx + 1])[1]
    IN IF bad # {}
         THEN LET f == U32Fields[CHOOSE b \in bad : \A c \in bad : b <= c]
              IN [err |-> Some(MalformedEntry(line_no + 1, InvalidField(f.name, parts[f.idx + 1]))),
                  entry |-> None]
       ELSE IF parse_f64(parts[9]) = None
         THEN [err |-> Some(MalformedEntry(line_no + 1, InvalidField("optimal_length", parts[9]))),
               entry |-> None]
       ELSE [err |-> None,
             entry |-> Some([bucket |-> u32(0), map_name |-> parts[2],
                             map_width |-> u32(2), map_height |-> u32(3),
                             start_x |-> u32(4), start_y |-> u32(5),
                             goal_x |-> u32(6), goal_y |-> u32(7),
                             optimal_length |-> parse_f64(parts[9])[1]])]

\* Result<Scenario, ScenarioError>
ScenarioOk(version, entries) ==
    [val |-> Some([version |-> version, entries |-> entries]), err |-> None]
ScenarioErr(e) == [val |-> None, err |-> Some(e)]

\* lines 61-79: the version loop from line k on (k counts from 1, the
\* enumerate index is k - 1); `next` is the first line of the entry loop
RECURSIVE version_loop(_, _)
version_loop(lines, k) ==
    IF k > Len(lines) THEN [err |-> Some(MissingVersion), version |-> 0, next |-> k]
    ELSE LET trimmed == Trim(lines[k])
             rest == strip_prefix(trimmed, <<"v", "e", "r", "s", "i", "o", "n", " ">>)
         IN IF trimmed = <<>> THEN version_loop(lines, k + 1)
            ELSE IF rest = None
              THEN [err |-> Some(MissingVersion), version |-> 0, next |-> k]
            ELSE IF parse_u32(Trim(rest[1])) = None
              THEN [err |-> Some(InvalidVersion(rest[1])), version |-> 0, next |-> k]
            ELSE [err |-> None, version |-> parse_u32(Trim(rest[1]))[1], next |-> k + 1]

\* lines 83-121: the entry loop from line k on
RECURSIVE entry_loop(_, _, _, _)
entry_loop(lines, k, version, entries) ==
    IF k > Len(lines) THEN ScenarioOk(version, entries)
    ELSE LET trimmed == Trim(lines[k])
             parts == split_tab(trimmed)
             line_no == k - 1
         IN IF trimmed = <<>> THEN entry_loop(lines, k + 1, version, entries)
            ELSE IF Len(parts) < 9
              THEN ScenarioErr(MalformedEntry(line_no + 1, ExpectedColumns(Len(parts))))
            ELSE LET e == ScenarioEntry(parts, line_no)
                 IN IF e.err # None THEN ScenarioErr(e.err[1])
                    ELSE entry_loop(lines, k + 1, version, Append(entries, e.entry[1]))

\* pub fn parse(input: &str) -> Result<Self, ScenarioError>
Scenario_parse(lines) ==
    LET v == version_loop(lines, 1)
    IN IF v.err # None THEN ScenarioErr(v.err[1])
       ELSE entry_loop(lines, v.next, v.version, <<>>)

\* a row: its columns joined by tabs
RECURSIVE JoinTab(_)
JoinTab(cols) ==
    IF Len(cols) = 1 THEN cols[1] ELSE cols[1] \o <<"\t">> \o JoinTab(Tail(cols))

NineColumns == <<<<"0">>, <<"m">>, <<"8">>, <<"8">>, <<"0">>, <<"0">>, <<"1">>, <<"0">>, <<"1", ".", "5">>>>

\* the lines of the texts: blank lines, version lines, and rows of eight,
\* nine and ten columns
ScenarioLines ==
    { <<>>,
      <<" ">>,
      <<"v", "e", "r", "s", "i", "o", "n", " ", "1">>,
      <<"v", "e", "r", "s", "i", "o", "n", " ", "x">>,
      <<"v", "e", "r", "s", "i", "o", "n">>,
      JoinTab(NineColumns),
      <<" ">> \o JoinTab(NineColumns),
      JoinTab(SubSeq(NineColumns, 1, 8)),
      JoinTab(NineColumns \o <<<<"x">>>>),
      JoinTab([NineColumns EXCEPT ![4] = <<"x">>]),
      JoinTab([NineColumns EXCEPT ![9] = <<"x">>]) }

ScenarioTexts == SeqsUpTo(ScenarioLines, MaxScenarioLines)

InitScenario ==
    /\ overflow_checks \in BOOLEAN
    /\ CoreStart
    /\ input \in ScenarioTexts
    /\ parsed = None
    /\ bytes = None
    /\ pc = "scenario"

CallScenarioParse ==
    /\ pc = "scenario"
    /\ parsed' = Some(Scenario_parse(input))
    /\ pc' = "scenario_parsed"
    /\ UNCHANGED <<core_unchanged, input, bytes>>

NextScenario == CallScenarioParse

SpecScenario == InitScenario /\ [][NextScenario]_vars


\* the first line that is not blank, 0 when every line is
FirstNonBlank(lines) ==
    IF \E k \in 1..Len(lines) : Trim(lines[k]) # <<>>
      THEN CHOOSE k \in 1..Len(lines) :
             Trim(lines[k]) # <<>> /\ \A l \in 1..k - 1 : Trim(lines[l]) = <<>>
      ELSE 0

\* a version line: the word, a blank and the rest
VersionLine(line) ==
    Len(Trim(line)) >= 8 /\ SubSeq(Trim(line), 1, 8) = <<"v", "e", "r", "s", "i", "o", "n", " ">>

\* the number of tab-separated columns of a row
ColumnCount(line) == Cardinality({i \in 1..Len(Trim(line)) : Trim(line)[i] = "\t"}) + 1

\* the non-blank rows after the version line at v
EntryRows(lines, v) == {k \in v + 1..Len(lines) : Trim(lines[k]) # <<>>}

\* a row of exactly nine columns with valid numeric fields
ValidRow(line) ==
    /\ ColumnCount(line) = 9
    /\ \A c \in {1, 3, 4, 5, 6, 7, 8} : parse_u32(split_tab(Trim(line))[c]) # None
    /\ parse_f64(split_tab(Trim(line))[9]) # None

ScenarioParsed == pc = "scenario_parsed"

\* the first non-empty line is a version line with a valid number
VersionAccepted ==
    /\ FirstNonBlank(input) > 0
    /\ VersionLine(input[FirstNonBlank(input)])
    /\ parse_u32(Trim(SubSeq(Trim(input[FirstNonBlank(input)]), 9,
                             Len(Trim(input[FirstNonBlank(input)]))))) # None

\* C25: Scenario::parse fails with MissingVersion when the first non-empty
\* line is not a version line; after the version line blank lines are
\* skipped, a row is accepted only if it has exactly nine tab-separated
\* columns with valid numeric fields, the first row that is not makes parse
\* fail with MalformedEntry carrying that row's line number, and without such
\* a row parse gives one entry for each non-blank row, none for a text of the
\* version line only.
C25_ScenarioRows ==
    ScenarioParsed =>
      LET first == FirstNonBlank(input)
          rows == EntryRows(input, first)
          bad == {k \in rows : ~ValidRow(input[k])}
      IN /\ (first = 0 \/ (first > 0 /\ ~VersionLine(input[first])))
              => parsed[1].err = Some(MissingVersion)
         /\ VersionAccepted /\ bad # {}
              => /\ parsed[1].err # None
                 /\ parsed[1].err[1].kind = "MalformedEntry"
                 /\ parsed[1].err[1].line = CHOOSE k \in bad : \A l \in bad : k <= l
         /\ VersionAccepted /\ bad = {}
              => /\ parsed[1].val # None
                 /\ Len(parsed[1].val[1].entries) = Cardinality(rows)



(***************************************************************************)
(* backend: register (api/auth.rs) and the AuthenticatedUser extractor of  *)
(* submit (auth.rs), on the router main.rs builds.                         *)
(***************************************************************************)
MaxUsers == 2

\* what generate_api_key can return: two of the 62^32 keys
ApiKeys == {"k1", "k2"}
\* what SaltString::generate(&mut OsRng) can return: two of the salts
Salts == {1, 2}

\* fn hash_api_key, with the salt it drew: the PHC string carries the salt and
\* the Argon2 digest of the key under that salt
hash_api_key(key, salt) == [salt |-> salt, digest |-> <<"argon2", salt, key>>]

\* the types the layers of the router put into a request's extensions
\* (main.rs 67-76: TraceLayer and CorsLayer, neither inserts anything;
\* db_middleware is not installed)
RequestExtensions == {}

\* RegisterRequest: username and email, the email a sequence of characters
Usernames == {"", "ann", "bob"}
Emails == {<<>>, <<"a", "x">>, <<"a", "@", "x">>}

\* the Authorization headers of the requests: none, a Bearer token that is a
\* key register can issue or another text, and a key without the scheme
Headers ==
    {None} \cup {Some(<<"Bearer", " ", k>>) : k \in ApiKeys \cup {"other"}}
           \cup {Some(<<k>>) : k \in ApiKeys}

RegisterResponse(user_id, api_key) ==
    [kind |-> "register", status |-> 200, user_id |-> user_id, api_key |-> api_key]

\* Database::get_user_by_username
get_user_by_username(username) ==
    IF \E i \in 1..Len(db_users) : db_users[i].username = username
      THEN Some(db_users[CHOOSE i \in 1..Len(db_users) : db_users[i].username = username])
      ELSE None

\* Database::get_api_key_by_hash: the row with this key_hash, not revoked
get_api_key_by_hash(keys, key_hash) ==
    LET found == {i \in 1..Len(keys) : keys[i].key_hash = key_hash /\ ~keys[i].revoked}
    IN IF found = {} THEN None ELSE Some(keys[CHOOSE i \in found : \A j \in found : i <= j])

\* Database::update_api_key_last_used
update_api_key_last_used(keys, key_id, at) ==
    [i \in 1..Len(keys) |->
       IF keys[i].id = key_id THEN [keys[i] EXCEPT !.last_used_at = Some(at)] ELSE keys[i]]

\* Result<AuthenticatedUser, AppError>
AuthOk(user_id, api_key_id) ==
    [ok |-> Some([user_id |-> user_id, api_key_id |-> api_key_id]), err |-> None]
AuthErr(status, app_error, message) ==
    [ok |-> None, err |-> Some(ErrResponse(status, app_error, message))]

\* AuthenticatedUser::from_request_parts, with the salt hash_api_key drew
from_request_parts(header, extensions, keys, salt) ==
    IF header = None THEN AuthErr(401, "Auth", "Missing Authorization header")
    ELSE LET api_key == strip_prefix(header[1], <<"Bearer", " ">>)
         IN IF api_key = None
              THEN AuthErr(401, "Auth", "Invalid Authorization header format")
            ELSE IF "Database" \notin extensions
              THEN AuthErr(500, "Internal", "Internal server error")
            ELSE LET record == get_api_key_by_hash(keys, hash_api_key(api_key[1][1], salt))
                 IN IF record = None THEN AuthErr(401, "Auth", "Invalid API key")
                    ELSE AuthOk(record[1].user_id, record[1].id)

InitAuth ==
    /\ overflow_checks = FALSE
    /\ map = GridMap(U32(1), U32(1), <<1>>)
    /\ starts = <<>>
    /\ goals = <<>>
    /\ req = [wasm_len |-> 0, solver_name |-> "", map_name |-> "", scenario_id |-> "",
              user_id |-> 0]
    /\ paths = <<>>
    /\ handler = "none"
    /\ submission = None
    /\ pc = "request"
    /\ result = <<>>
    /\ response = NoResponse
    /\ db_submissions = <<>>
    /\ db_verifications = <<>>
    /\ open = {}
    /\ visited = {}
    /\ solved = <<>>
    /\ solver_result = None
    /\ ExecutorIdle
    /\ AstarIdle
    /\ LibraryIdle

auth_unchanged ==
    <<request_vars, executor_vars, astar_vars, prioritized_vars, core_vars, solver_result, paths,
      submission, result, db_vars, solver_vars>>

\* POST /api/auth/register, the whole handler
Register ==
    /\ Len(db_users) < MaxUsers
    /\ handler' = "register"
    /\ pc' = "request"
    /\ \E username \in Usernames, email \in Emails, api_key \in ApiKeys, salt \in Salts :
         IF username = "" \/ email = <<>>
           THEN /\ response' = ErrResponse(400, "BadRequest", "Username and email are required")
                /\ UNCHANGED <<db_users, db_api_keys, issued>>
         ELSE IF \A i \in 1..Len(email) : email[i] # "@"
           THEN /\ response' = ErrResponse(400, "BadRequest", "Invalid email format")
                /\ UNCHANGED <<db_users, db_api_keys, issued>>
         ELSE IF get_user_by_username(username) # None
           THEN /\ response' = ErrResponse(400, "BadRequest", "Username already exists")
                /\ UNCHANGED <<db_users, db_api_keys, issued>>
         ELSE LET user == [id |-> Len(db_users) + 1, username |-> username, email |-> email]
              IN /\ db_users' = Append(db_users, user)
                 /\ db_api_keys' = Append(db_api_keys,
                        [id |-> Len(db_api_keys) + 1, user_id |-> user.id,
                         key_hash |-> hash_api_key(api_key, salt), revoked |-> FALSE,
                         last_used_at |-> None])
                 /\ issued' = Append(issued, [user_id |-> user.id, api_key |-> api_key])
                 /\ response' = RegisterResponse(user.id, api_key)
    /\ UNCHANGED <<auth_unchanged, auth>>

\* POST /api/submit up to the end of its extractor: a rejection is the
\* response, an AuthenticatedUser is handed to the handler
AuthenticateSubmit ==
    /\ pc = "request"
    /\ handler' = "submit"
    /\ \E header \in Headers, salt \in Salts :
         LET answer == from_request_parts(header, RequestExtensions, db_api_keys, salt)
         IN /\ auth' = Some([header |-> header, answer |-> answer])
            /\ IF answer.ok # None
                 THEN /\ db_api_keys' = update_api_key_last_used(db_api_keys,
                                            answer.ok[1].api_key_id, now)
                      /\ req' = [req EXCEPT !.user_id = answer.ok[1].user_id]
                      /\ response' = NoResponse
                      /\ pc' = "authenticated"
                 ELSE /\ response' = answer.err[1]
                      /\ pc' = "request"
                      /\ UNCHANGED <<db_api_keys, req>>
    /\ UNCHANGED <<overflow_checks, map, starts, goals, executor_vars, astar_vars,
                   prioritized_vars, core_vars, solver_result, paths, submission, result,
                   db_vars, solver_vars, db_users, issued>>

NextAuth ==
    \/ Register
    \/ AuthenticateSubmit

SpecAuth == InitAuth /\ [][NextAuth]_vars

\* the last request was a submit presenting this Authorization header
Presented(header) == handler = "submit" /\ auth # None /\ auth[1].header = header

BearerOf(api_key) == Some(<<"Bearer", " ", api_key>>)

IssuedKeys == {issued[i].api_key : i \in 1..Len(issued)}

\* a Bearer token that register has not issued
UnknownKey(header) ==
    /\ header # None
    /\ \E k \in (ApiKeys \cup {"other"}) \ IssuedKeys : header = BearerOf(k)

\* C26: a submit request presenting a key register has issued to a user as
\* `Authorization: Bearer <api_key>` is authenticated as that user, and the
\* last-used timestamp of the key's record is set; a request without an
\* Authorization header or with an unknown key is answered 401 (Auth), and
\* nothing is executed or persisted.
C26_IssuedKeyAuthenticates ==
    /\ \A i \in 1..Len(issued) :
         Presented(BearerOf(issued[i].api_key)) =>
           /\ auth[1].answer.ok # None
           /\ auth[1].answer.ok[1].user_id = issued[i].user_id
           /\ \E r \in 1..Len(db_api_keys) :
                /\ db_api_keys[r].id = auth[1].answer.ok[1].api_key_id
                /\ db_api_keys[r].user_id = issued[i].user_id
                /\ db_api_keys[r].last_used_at # None
    /\ (handler = "submit" /\ auth # None /\ (auth[1].header = None \/ UnknownKey(auth[1].header))) =>
           /\ response.kind = "error"
           /\ response.status = 401
           /\ response.app_error = "Auth"
           /\ calls = <<>>
           /\ db_submissions = <<>>
           /\ db_verifications = <<>>



(***************************************************************************)
(* executor.rs, lines 112-166: the match on the result of the guest call,  *)
(* on its own.  A message is a sequence of words.                          *)
(***************************************************************************)
MaxMessageWords == 2

\* the words of the messages: the three the claim names and one more
MessageWords == {"deadline", "epoch", "fuel", "unreachable"}
Messages == SeqsUpTo(MessageWords, MaxMessageWords)

\* the configured timeouts, in seconds
TimeoutChoices == {1, TimeoutSecs, 30}

\* the result of solve_fn.call_async: Ok((Ok(paths),)), Ok((Err(err_msg),))
\* or Err(e) with e.to_string() = message
CallResults ==
    {[kind |-> "Ok(Ok)", text |-> <<>>]}
      \cup {[kind |-> k, text |-> m] : k \in {"Ok(Err)", "Err"}, m \in Messages}

\* the `error` field of the SolverResult the match builds
match_result(call_result, timeout_secs) ==
    CASE call_result.kind = "Ok(Ok)" -> None
      [] call_result.kind = "Ok(Err)" -> Some(call_result.text)
      [] call_result.kind = "Err" -> Some(error_msg(call_result.text, timeout_secs))

InitTrap ==
    /\ overflow_checks = FALSE
    /\ CoreStart
    /\ \E call_result \in CallResults, timeout_secs \in TimeoutChoices :
         input = [result |-> call_result, timeout_secs |-> timeout_secs]
    /\ parsed = None
    /\ bytes = None
    /\ pc = "result"

MatchResult ==
    /\ pc = "result"
    /\ solver_result' = Some(match_result(input.result, input.timeout_secs))
    /\ pc' = "matched"
    /\ UNCHANGED <<request_vars, now, engine, calls, astar_vars, library_vars, paths, handler,
                   submission, result, response, db_vars, solver_vars>>

NextTrap == MatchResult

SpecTrap == InitTrap /\ [][NextTrap]_vars

Matched == pc = "matched"

\* the call ended in a trap with this predicate on its message
TrapWith(P(_)) == Matched /\ input.result.kind = "Err" /\ P(input.result.text)

ReportedError == solver_result[1][1]

TimeoutReported ==
    /\ ReportedError.fmt = "Solver timeout after Ns"
    /\ ReportedError.arg = <<input.timeout_secs>>

FuelReported == ReportedError.fmt = "Solver exceeded instruction limit"

ExecutionErrorReported ==
    /\ ReportedError.fmt = "Execution error"
    /\ ReportedError.arg = input.result.text

\* a guest that returns Err(s) is reported with error = s
GuestErrUnchanged ==
    (Matched /\ input.result.kind = "Ok(Err)") => solver_result[1] = Some(input.result.text)

\* C27 (as stated): a trap whose message mentions deadline or epoch is
\* reported as "Solver timeout after Ns", N the configured timeout; otherwise
\* one that mentions fuel as "Solver exceeded instruction limit"; otherwise
\* as "Execution error: <msg>"; a guest's own Err(s) is reported as s.
C27_TrapClassification ==
    LET timeout(m) == contains(m, "deadline") \/ contains(m, "epoch")
        fuel(m) == ~timeout(m) /\ contains(m, "fuel")
        other(m) == ~timeout(m) /\ ~contains(m, "fuel")
    IN /\ TrapWith(timeout) => TimeoutReported
       /\ TrapWith(fuel) => FuelReported
       /\ TrapWith(other) => ExecutionErrorReported
       /\ GuestErrUnchanged



(***************************************************************************)
(* The reference solver's heuristic and the length of the plan it returns, *)
(* against the least number of joint transitions (SpecSolver).             *)
(***************************************************************************)

\* the least number of joint transitions from one of the joint positions of
\* `frontier` (all at distance d from the start) to the goals; -1 when the
\* goals cannot be reached
RECURSIVE JointDistance(_, _, _, _, _)
JointDistance(frontier, seen, gs, m, d) ==
    IF \E p \in frontier : \A i \in 1..Len(gs) : p[i] = gs[i] THEN d
    ELSE LET next == {q \in [1..Len(gs) -> PassableCells(m)] :
                        q \notin seen /\ \E p \in frontier : JointTransition(p, q, m)}
         IN IF next = {} THEN -1
            ELSE JointDistance(next, seen \cup next, gs, m, d + 1)

MinTransitions(m, ps, gs) == JointDistance({ps}, {ps}, gs, m, 0)

\* the instance is one the claim speaks of: as many goals as agents, the
\* agents on distinct passable cells, a plan exists
Solvable == Len(starts) = Len(goals) /\ Len(starts) > 0 /\ HasPlan(map, starts, goals)

\* the heuristic of a state never exceeds the joint transitions still needed
Admissible(state) ==
    MinTransitions(map, state.positions, state.goals) >= 0 =>
        GlobalState_heuristic(state) <= MinTransitions(map, state.positions, state.goals)

\* C28 (as stated): the sum of the agents' Manhattan distances is admissible
\* for a cost of 1 per joint transition, and the first goal state popped by
\* solve_mapf_centralized has the least number of joint transitions.
C28_FirstGoalIsOptimal ==
    (handler = "solve_mapf_centralized" /\ Solvable) =>
        /\ \A state \in open : Admissible(state)
        /\ (pc = "returned" /\ solved[1].plan # None) =>
              \A i \in 1..Len(solved[1].plan[1]) :
                  Len(solved[1].plan[1][i]) - 1 = MinTransitions(map, starts, goals)



(***************************************************************************)
(* The grid invariant, on the grids of mapf-core and on the grid the       *)
(* handlers build from a request.                                          *)
(***************************************************************************)

\* a grid of mapf-core: width > 0, height > 0, width * height tiles
CoreGridOk(g) ==
    /\ g.width > 0
    /\ g.height > 0
    /\ IsProduct(Len(g.tiles), g.width, g.height)

\* the same for the grid of a request, its width and height u32 values
RequestGridOk(g) ==
    /\ g.width.hi = 0 /\ g.width.lo > 0
    /\ g.height.hi = 0 /\ g.height.lo > 0
    /\ IsProduct(Len(g.tiles), g.width.lo, g.height.lo)

\* parse or from_bytes has returned a grid
GridProduced == pc \in {"from_bytes", "parsed", "to_bytes"} /\ parsed[1].val # None

\* verify or submit has handed its grid to the executor
GridHandedOver == handler \in {"verify", "submit"} /\ pc = "guest"

\* C29 (as stated): every grid GridMap::parse or GridMap::from_bytes
\* produces, and every grid verify and submit hand to the executor and the
\* validator, has width > 0, height > 0 and exactly width * height tiles.
C29_GridInvariant ==
    /\ GridProduced => CoreGridOk(parsed[1].val[1])
    /\ GridHandedOver => RequestGridOk(map)



(***************************************************************************)
(* submit: the submission record and its verification record (Spec).       *)
(***************************************************************************)

\* the verification records that reference a submission
VerificationsOf(submission_id) ==
    {v \in 1..Len(db_verifications) : db_verifications[v].submission_id = submission_id}

\* a submit request has completed, with whatever outcome
SubmitCompleted == handler = "submit" /\ pc = "done"

\* C30 (as stated): after a submit request has completed, with any outcome,
\* the submission record it created exists if and only if exactly one
\* verification record references it: no submission record is left without
\* its verification record, and no verification record without a submission.
C30_SubmissionHasVerification ==
    SubmitCompleted =>
        /\ submission # None =>
             /\ \E s \in 1..Len(db_submissions) : db_submissions[s] = submission[1]
             /\ Cardinality(VerificationsOf(submission[1].id)) = 1
        /\ submission = None => db_verifications = <<>>

=============================================================================
